---- MODULE Spec2Model ----
(***************************************************************************)
(* Model of the fetch-cache-retry orchestrator of the RubinOT death        *)
(* tracker.  Two server programs of the repository are modelled:           *)
(*   - src/server.js            (direct fetch in the /api/deaths handler)  *)
(*   - src/unnamed/part_004     (request queue + fetchDeathsFromRubinOT)   *)
(* A step of the model is one run-to-completion slice of the Node.js       *)
(* event loop: the code between two awaits of real I/O or timers.          *)
(***************************************************************************)
EXTENDS Integers, Sequences, FiniteSets, TLC

\* ------------------------------------------------------------------ bounds
\* how often the clock may advance in one behaviour
MaxTicks == 1
\* longest primary list the extractor hands back: to concurrent requests (MaxRows)
\* and to the single request of the enrichment runs (MaxLen)
MaxRows == 1
MaxLen == 3
\* how many admission calls a long run of the rate limiter on its own makes, and how
\* many of them come at an irregular distance from the call before
MaxCalls == 33
MaxOddSteps == 2
\* how many admission calls a short run of the rate limiter makes
MaxFloorCalls == 5
\* how many calls and clock advances a run of rateLimitMiddleware on its own makes
MaxMiddlewareCalls == 4
\* the cache operations of a run of the list cache, and the clock steps between them
MaxCacheCalls == 4
MaxCacheSteps == 2
\* the largest detail cache a sweep is run on
MaxEntries == 133
\* the most rows the upstream page of a top-K run holds
MaxPageRows == 11
\* the writes to the rate records in a run of the records on their own, and the clock
\* steps between them
MaxRecordCalls == 4
MaxRecordSteps == 2
\* how many requests one address sends in a run against the ceiling of server.js
MaxCeilingCalls == 22
\* how often the clock advances while the attempts of a retry loop run
MaxAttemptSteps == 3

\* ------------------------------------------------------- program constants
CACHE_DURATION == 3000
CHARACTER_CACHE_DURATION == 86400000
RATE_LIMIT_WINDOW == 60000
MAX_REQUESTS_PER_MINUTE == 20
\* declared "Minimum 1 second between requests from same IP"; no statement reads it
MIN_REQUEST_INTERVAL == 1000
\* the literal 500 of rateLimitMiddleware ("Minimum 500ms between ANY requests")
SPAM_INTERVAL == 500
MAX_RETRIES == 3
\* uncachedDeaths.slice(0, 3): how many records are detail-fetched per request
PRIORITY_FETCH == 3

\* ------------------------------------------------------------- model sets
Reqs == {"r1", "r2"}
Prewarm == "prewarm"
Procs == Reqs \cup {Prewarm}
IPs == {"ip1"}
Worlds == {"20"}
Players == {"A", "B"}
\* clock advances the model distinguishes: past the spam interval but within the TTL
\* of the list cache, and a whole TTL (requests in the same instant are closer together
\* than the spam interval)
TickSteps == {600, 3000}
Null == 0

VARIABLES
  now,              \* Date.now()
  ticks,            \* number of clock advances so far
  cache,            \* Map cacheKey -> {data, timestamp}
  characterCache,   \* Map player -> {data, timestamp}
  requestLog,       \* Map ip -> {requests, lastRequest}
  fastDeathsCache,  \* <<>> or <<{key, deaths, timestamp}>>: fastDeathsCache / fastDeathsTimestamp
  sharedBrowser,    \* the module-level browser handle (Null or a browser id)
  browserLaunching, \* the module-level launch flag
  browsers,         \* browser id -> [connected, pages]: every browser launched so far
  gb,               \* per caller of getBrowser: "none" | "wait" | "launch"
  req,              \* per request slot: the handler's locals and position
  \* src/unnamed/part_004 only
  requestQueue,       \* the tasks waiting for the queue processor, head first
  isProcessingQueue,  \* the module-level flag of processRequestQueue
  rubinOTRequestLog,  \* Map identity -> {requests, lastRequest}
  worker,             \* processRequestQueue: its position, its task, the fetch's locals
  \* src/src/App.jsx and src/unnamed/part_002: the React client
  client,             \* its state, its refs, its interval and the fetches it awaits
  \* src/netlify/functions/deaths.js: the Discord alerter
  alerter,            \* notifiedDeaths, the runs of checkDeaths and the webhook posts
  \* history
  calls               \* the admission calls made so far: who was asked, when, the verdict

\* the state only part_004 has, and the state only server.js has
queueState == <<requestQueue, isProcessingQueue, rubinOTRequestLog, worker>>
directState == <<requestLog, fastDeathsCache, gb>>
\* the programs beside the server: the browser client and the alerter
peerState == <<client, alerter>>
\* everything the server holds
serverState == <<now, ticks, cache, characterCache, requestLog, fastDeathsCache,
                 sharedBrowser, browserLaunching, browsers, gb, req, queueState, calls>>
vars == <<serverState, peerState>>

\* ---------------------------------------------------------------- records
Sentinel == [vocation |-> "Unknown", residence |-> "Unknown",
             accountStatus |-> "Free Account", guild |-> "No Guild"]
RealVip == [vocation |-> "Knight", residence |-> "Thais",
            accountStatus |-> "VIP Account", guild |-> "No Guild"]
\* what fetchCharacterData can hand back
DetailOutcomes == {Sentinel, RealVip}

\* a primary record: the player name and the time string of the row
Primary(p, t) == [player |-> p, time |-> t]
\* {...death, ...charData}
Enrich(d, c) == [player |-> d.player, time |-> d.time, vocation |-> c.vocation,
                 residence |-> c.residence, accountStatus |-> c.accountStatus,
                 guild |-> c.guild]
Strip(e) == Primary(e.player, e.time)

\* the lists page.evaluate can hand back: every list of at most MaxLen rows over
\* Players, the row's time string standing for its position on the page
Lists(max) ==
  UNION {{[i \in 1..n |-> Primary(f[i], i)] : f \in [1..n -> Players]} : n \in 0..max}

NoResp == [status |-> 0]
IdleReq == [pc |-> "idle", kind |-> "deaths", ip |-> "ip1", world |-> "20", vip |-> FALSE,
            cached |-> <<>>, retryCount |-> 0, browser |-> Null, page |-> "none",
            deaths |-> <<>>, cachedDeaths |-> <<>>, tasks |-> <<>>, quickDeaths |-> <<>>,
            result |-> <<>>, resp |-> NoResp,
            \* history the properties refer to: was a cache entry there at arrival,
            \* was it fresh, did the request touch a rate record, the timeouts of the
            \* attempts so far, the handle an attempt found dead
            hadCached |-> FALSE, freshAtArrival |-> FALSE, rateTouched |-> FALSE,
            budgets |-> <<>>, deadSeen |-> Null]

\* the React client before it is mounted and the alerter before its first run
IdleClient == [world |-> "20", currentWorld |-> "20", fetchingRef |-> FALSE,
               deaths |-> <<>>, latestIds |-> {}, flights |-> <<>>]
IdleRun == [pc |-> "idle", latestDeaths |-> <<>>, i |-> 0]
IdleAlerter == [notifiedDeaths |-> {}, runs |-> <<IdleRun, IdleRun>>, posts |-> <<>>]
PeersIdle == client = IdleClient /\ alerter = IdleAlerter

\* ---------------------------------------------------------------- helpers
Put(m, k, v) == [x \in DOMAIN m \cup {k} |-> IF x = k THEN v ELSE m[x]]
Min(a, b) == IF a < b THEN a ELSE b

\* `deaths_${worldId}_${minLevel || 'all'}_v4`, for requests without a level filter
CacheKey(world) == <<"deaths", world, "all", "v4">>

\* cached && Date.now() - cached.timestamp < CACHE_DURATION
\* a cache check that takes an entry of exactly CACHE_DURATION for fresh
Fresh_Inclusive(key) == key \in DOMAIN cache /\ now - cache[key].timestamp <= CACHE_DURATION
Fresh(key) == key \in DOMAIN cache /\ now - cache[key].timestamp < CACHE_DURATION

\* cached.data.filter(death => death.accountStatus.toLowerCase().includes('vip'))
IsVip(e) == e.accountStatus = "VIP Account"
VipFilter(vip, data) == IF vip THEN SelectSeq(data, IsVip) ELSE data

\* sharedBrowser.isConnected(), on any handle
Connected(b) == b # Null /\ browsers[b].connected

\* await page.close().catch(() => {}): closing fails silently on a dead browser
ClosePage(b) ==
  IF Connected(b) THEN [browsers EXCEPT ![b].pages = @ - 1] ELSE browsers
OpenPage(b) == [browsers EXCEPT ![b].pages = @ + 1]

\* res.json / res.status(..).json: the handler is over, its locals are dropped (the
\* detail fetches it started may still be running)
Respond(rec, status, body, marker, how) ==
  [rec EXCEPT !.pc = "done", !.page = "none", !.cached = <<>>, !.retryCount = 0,
              !.budgets = <<>>, !.cachedDeaths = <<>>, !.quickDeaths = <<>>,
              !.result = <<>>,
              !.resp = [status |-> status, body |-> body, staleMarker |-> marker,
                        how |-> how]]

\* ------------------------------------------------ server.js: rate limiting
LogEntry(ip) ==
  IF ip \in DOMAIN requestLog THEN requestLog[ip]
  ELSE [requests |-> <<>>, lastRequest |-> 0]

\* rateLimitMiddleware answers 429
MiddlewareRejects(ip) ==
  LogEntry(ip).lastRequest > 0 /\ now - LogEntry(ip).lastRequest < SPAM_INTERVAL

\* requestLog after rateLimitMiddleware let the request through
MiddlewarePass(ip) == Put(requestLog, ip, [LogEntry(ip) EXCEPT !.lastRequest = now])

\* a logRateLimitRequest that pushes onto the window without filtering it
logRateLimitRequest_Unfiltered(log, ip) ==
  LET e == IF ip \in DOMAIN log THEN log[ip] ELSE [requests |-> <<>>, lastRequest |-> now]
  IN [x \in DOMAIN log \cup {ip} |->
        IF x = ip THEN [e EXCEPT !.requests = Append(e.requests, now)] ELSE log[x]]
\* requestLog after logRateLimitRequest(ip), run on log
logRateLimitRequest(log, ip) ==
  LET e == IF ip \in DOMAIN log THEN log[ip] ELSE [requests |-> <<>>, lastRequest |-> now]
      InWindow(t) == now - t < RATE_LIMIT_WINDOW
  IN [x \in DOMAIN log \cup {ip} |->
        IF x = ip THEN [e EXCEPT !.requests = Append(SelectSeq(e.requests, InWindow), now)]
        ELSE log[x]]

\* ------------------------------------------------- server.js: getBrowser()
\* the synchronous head of getBrowser: reuse, wait for the launch, or launch
getBrowser_IgnoresLaunchFlag ==
  IF Connected(sharedBrowser) THEN "return" ELSE "launch"
getBrowser ==
  IF Connected(sharedBrowser) THEN "return"
  ELSE IF browserLaunching THEN "wait"
  ELSE "launch"

\* the caller's record once getBrowser() has handed back browser b
Resume(rec, b) == [rec EXCEPT !.browser = b, !.pc = "newPage"]

\* the caller calls getBrowser(): rec is its record before the call
CallGetBrowser(p, rec) ==
  LET o == getBrowser IN
  /\ gb' = [gb EXCEPT ![p] = IF o = "return" THEN "none" ELSE o]
  /\ browserLaunching' = (browserLaunching \/ o = "launch")
  /\ IF p = Prewarm THEN UNCHANGED req
     ELSE req' = [req EXCEPT ![p] = IF o = "return" THEN Resume(rec, sharedBrowser)
                                     ELSE [rec EXCEPT !.pc = "getBrowser"]]

\* setTimeout(resolve, 500) fired: return getBrowser()
GetBrowserRetry(p) ==
  /\ gb[p] = "wait"
  /\ CallGetBrowser(p, IF p = Prewarm THEN IdleReq ELSE req[p])
  /\ UNCHANGED <<calls, queueState, now, ticks, peerState, cache, characterCache, requestLog, fastDeathsCache, sharedBrowser, browsers>>

\* puppeteer.launch resolved
LaunchOk(p) ==
  /\ gb[p] = "launch"
  /\ LET b == Len(browsers) + 1 IN
     /\ browsers' = Append(browsers, [connected |-> TRUE, pages |-> 0])
     /\ sharedBrowser' = b
     /\ IF p = Prewarm THEN UNCHANGED req
        ELSE req' = [req EXCEPT ![p] = Resume(req[p], b)]
  /\ browserLaunching' = FALSE
  /\ gb' = [gb EXCEPT ![p] = "none"]
  /\ UNCHANGED <<calls, queueState, now, ticks, peerState, cache, characterCache, requestLog, fastDeathsCache>>

\* puppeteer.launch rejected: getBrowser throws into the caller's catch
LaunchFail(p) ==
  /\ gb[p] = "launch"
  /\ browserLaunching' = FALSE
  /\ gb' = [gb EXCEPT ![p] = "none"]
  /\ IF p = Prewarm THEN UNCHANGED req
     ELSE req' = [req EXCEPT ![p] =
                    Respond(req[p], 500, <<>>, FALSE, "getBrowser failed")]
  /\ UNCHANGED <<calls, queueState, now, ticks, peerState, cache, characterCache, requestLog, fastDeathsCache, sharedBrowser, browsers>>

\* the browser process dies or loses its connection
BrowserDies(b) ==
  /\ b \in DOMAIN browsers
  /\ browsers[b].connected
  /\ browsers' = [browsers EXCEPT ![b] = [connected |-> FALSE, pages |-> 0]]
  /\ UNCHANGED <<calls, queueState, now, ticks, peerState, cache, characterCache, requestLog, fastDeathsCache, sharedBrowser,
                 browserLaunching, gb, req>>

Tick(d) ==
  /\ ticks < MaxTicks
  /\ UNCHANGED peerState
  /\ ticks' = ticks + 1
  /\ now' = now + d
  /\ UNCHANGED <<calls, queueState, cache, characterCache, requestLog, fastDeathsCache, sharedBrowser, browserLaunching,
                 browsers, gb, req>>

\* ------------------------------------------- server.js: GET /api/deaths
\* rateLimitMiddleware answers 429 before the handler runs (src/server.js:54-60)
ArriveTooFast(r, ip, world, vip) ==
  /\ req[r].pc = "idle"
  /\ MiddlewareRejects(ip)
  /\ req' = [req EXCEPT ![r] =
       Respond([req[r] EXCEPT !.ip = ip, !.world = world, !.vip = vip,
                              !.freshAtArrival = Fresh(CacheKey(world)),
                              !.hadCached = CacheKey(world) \in DOMAIN cache],
               429, <<>>, FALSE, "denied")]
  /\ UNCHANGED <<calls, queueState, now, ticks, peerState, cache, characterCache, requestLog, fastDeathsCache, sharedBrowser,
                 browserLaunching, browsers, gb>>

\* the middleware lets the request through and the handler finds a fresh entry
ArriveHit(r, ip, world, vip) ==
  /\ req[r].pc = "idle"
  /\ ~MiddlewareRejects(ip)
  /\ Fresh(CacheKey(world))
  /\ requestLog' = MiddlewarePass(ip)
  /\ req' = [req EXCEPT ![r] =
       Respond([req[r] EXCEPT !.ip = ip, !.world = world, !.vip = vip,
                              !.cached = <<cache[CacheKey(world)]>>,
                              !.freshAtArrival = TRUE,
                              !.hadCached = TRUE,
                              !.rateTouched = (MiddlewarePass(ip) # requestLog)],
               200, VipFilter(vip, cache[CacheKey(world)].data), FALSE, "hit")]
  /\ UNCHANGED <<calls, queueState, now, ticks, peerState, cache, characterCache, fastDeathsCache, sharedBrowser,
                 browserLaunching, browsers, gb>>

\* the middleware lets the request through, the handler misses the cache, logs the
\* request and calls getBrowser()
ArriveMiss(r, ip, world, vip) ==
  /\ req[r].pc = "idle"
  /\ ~MiddlewareRejects(ip)
  /\ ~Fresh(CacheKey(world))
  /\ requestLog' = logRateLimitRequest(MiddlewarePass(ip), ip)
  /\ CallGetBrowser(r, [req[r] EXCEPT
         !.ip = ip, !.world = world, !.vip = vip, !.rateTouched = TRUE,
         !.hadCached = CacheKey(world) \in DOMAIN cache,
         !.cached = IF CacheKey(world) \in DOMAIN cache
                    THEN <<cache[CacheKey(world)]>> ELSE <<>>])
  /\ UNCHANGED <<calls, queueState, now, ticks, peerState, cache, characterCache, fastDeathsCache, sharedBrowser, browsers>>

\* PROGRESSIVE TIMEOUTS
gotoTimeout_Shrinking(retryCount) ==
  IF retryCount = 0 THEN 8000 ELSE IF retryCount = 1 THEN 12000 ELSE 20000 - retryCount
gotoTimeout(retryCount) ==
  IF retryCount = 0 THEN 8000 ELSE IF retryCount = 1 THEN 12000 ELSE 20000
selectorTimeout(retryCount) ==
  IF retryCount = 0 THEN 4000 ELSE IF retryCount = 1 THEN 6000 ELSE 8000

\* page = await browser.newPage() resolved; the page is set up and page.goto is called
NewPageOk(r) ==
  /\ req[r].pc = "newPage"
  /\ req[r].kind = "deaths"
  /\ Connected(req[r].browser)
  /\ browsers' = OpenPage(req[r].browser)
  /\ req' = [req EXCEPT ![r].pc = "goto", ![r].page = "open",
                        ![r].budgets = Append(@, [goto |-> gotoTimeout(req[r].retryCount),
                                                  selector |-> selectorTimeout(req[r].retryCount)])]
  /\ UNCHANGED <<calls, queueState, now, ticks, peerState, cache, characterCache, requestLog, fastDeathsCache, sharedBrowser,
                 browserLaunching, gb>>

\* the catch (attemptError) block: close the page, count the attempt, then fall back
\* to the captured cache entry, throw to the outer catch, or wait for the next attempt
MaxRetriesExceeded(retryCount) == retryCount > MAX_RETRIES

\* a retry loop whose last throw no catch block answers
AttemptFailed_Unanswered(rec) ==
  LET r1 == [rec EXCEPT !.page = "none", !.retryCount = @ + 1]
  IN IF MaxRetriesExceeded(r1.retryCount)
     THEN [r1 EXCEPT !.pc = "thrown"]
     ELSE [r1 EXCEPT !.pc = "backoff"]

AttemptFailed(rec) ==
  LET dead == ~Connected(rec.browser)
      r1 == [rec EXCEPT !.page = "none", !.retryCount = @ + 1,
                        !.budgets = IF Len(@) = rec.retryCount
                                    THEN Append(@, [goto |-> 0, selector |-> 0]) ELSE @,
                        !.deadSeen = IF dead THEN rec.browser ELSE @]
  IN IF MaxRetriesExceeded(r1.retryCount)
     THEN IF rec.cached # <<>>
          THEN Respond(r1, 200, VipFilter(rec.vip, rec.cached[1].data), FALSE, "stale")
          ELSE Respond(r1, 500, <<>>, FALSE, "retries exhausted")
     ELSE [r1 EXCEPT !.pc = "backoff"]

\* browser.newPage() rejected: the handle got before the loop is disconnected
NewPageFail(r) ==
  /\ req[r].pc = "newPage"
  /\ req[r].kind = "deaths"
  /\ ~Connected(req[r].browser)
  /\ req' = [req EXCEPT ![r] = AttemptFailed(req[r])]
  /\ UNCHANGED <<calls, queueState, now, ticks, peerState, cache, characterCache, requestLog, fastDeathsCache, sharedBrowser,
                 browserLaunching, browsers, gb>>

\* page.goto resolved within gotoTimeout
Loaded(r) ==
  /\ req[r].pc = "goto"
  /\ Connected(req[r].browser)
  /\ req' = [req EXCEPT ![r].pc = "waitForSelector"]
  /\ UNCHANGED <<queueState, now, ticks, peerState, cache, characterCache, requestLog, fastDeathsCache, sharedBrowser,
                 browserLaunching, browsers, gb>>
GotoOk(r) == Loaded(r) /\ UNCHANGED calls

\* page.goto timed out or failed
GotoFail(r) ==
  /\ req[r].pc = "goto"
  /\ browsers' = ClosePage(req[r].browser)
  /\ req' = [req EXCEPT ![r] = AttemptFailed(req[r])]
  /\ UNCHANGED <<calls, queueState, now, ticks, peerState, cache, characterCache, requestLog, fastDeathsCache, sharedBrowser,
                 browserLaunching, gb>>

\* waitForSelector found the table: break
TableFound(r) ==
  /\ req[r].pc = "waitForSelector"
  /\ Connected(req[r].browser)
  /\ req' = [req EXCEPT ![r].pc = "parse"]
  /\ UNCHANGED <<calls, queueState, now, ticks, peerState, cache, characterCache, requestLog, fastDeathsCache, sharedBrowser,
                 browserLaunching, browsers, gb>>

\* waitForSelector timed out but the container exists: break and parse anyway
ContainerOnly(r) ==
  /\ req[r].pc = "waitForSelector"
  /\ Connected(req[r].browser)
  /\ req' = [req EXCEPT ![r].pc = "parse"]
  /\ UNCHANGED <<calls, queueState, now, ticks, peerState, cache, characterCache, requestLog, fastDeathsCache, sharedBrowser,
                 browserLaunching, browsers, gb>>

\* waitForSelector timed out and there is no container (or the check itself failed)
NoContainer(r) ==
  /\ req[r].pc = "waitForSelector"
  /\ browsers' = ClosePage(req[r].browser)
  /\ req' = [req EXCEPT ![r] = AttemptFailed(req[r])]
  /\ UNCHANGED <<calls, queueState, now, ticks, peerState, cache, characterCache, requestLog, fastDeathsCache, sharedBrowser,
                 browserLaunching, gb>>

\* setTimeout(resolve, waitTime) fired: next iteration of the retry loop
BackoffDone(r) ==
  /\ req[r].pc = "backoff"
  /\ req' = [req EXCEPT ![r].pc = "newPage"]
  /\ UNCHANGED <<calls, queueState, now, ticks, peerState, cache, characterCache, requestLog, fastDeathsCache, sharedBrowser,
                 browserLaunching, browsers, gb>>

\* ------------------------------- server.js: partition, detail fetch, merge
\* cachedChar && Date.now() - cachedChar.timestamp < CHARACTER_CACHE_DURATION
IsCached(player) ==
  /\ player \in DOMAIN characterCache
  /\ now - characterCache[player].timestamp < CHARACTER_CACHE_DURATION

Map(seq, Op(_)) == [i \in 1..Len(seq) |-> Op(seq[i])]

\* deathsWithCacheStatus.filter(d => d._cached)
cachedDeaths(deaths) ==
  LET Hit(d) == IsCached(d.player)
      Fill(d) == Enrich(d, characterCache[d.player].data)
  IN Map(SelectSeq(deaths, Hit), Fill)
\* deathsWithCacheStatus.filter(d => !d._cached)
uncachedDeaths(deaths) ==
  LET Miss(d) == ~IsCached(d.player) IN SelectSeq(deaths, Miss)
\* uncachedDeaths.slice(0, 3)
deathsToFetch(deaths) ==
  SubSeq(uncachedDeaths(deaths), 1, Min(PRIORITY_FETCH, Len(uncachedDeaths(deaths))))
\* uncachedDeaths.slice(3).map(death => ({...death, <sentinels>}))
quickDeaths(deaths) ==
  LET Quick(d) == Enrich(d, Sentinel)
  IN Map(SubSeq(uncachedDeaths(deaths), PRIORITY_FETCH + 1, Len(uncachedDeaths(deaths))),
         Quick)

\* deaths.findIndex(d => d.player === a.player)
findIndex(deaths, player) ==
  LET hits == {i \in 1..Len(deaths) : deaths[i].player = player}
  IN IF hits = {} THEN -1 ELSE CHOOSE i \in hits : \A j \in hits : i <= j

\* all.sort((a, b) => findIndex(a) - findIndex(b)): Array.prototype.sort is stable, so
\* the records are grouped by the first position of their player name, each group in
\* the order it has in `all`
RECURSIVE SortFrom(_, _, _)
SortFrom(all, deaths, k) ==
  IF k > Len(deaths) THEN <<>>
  ELSE LET AtK(e) == findIndex(deaths, e.player) = k
       IN SelectSeq(all, AtK) \o SortFrom(all, deaths, k + 1)
SortByFindIndex(all, deaths) == SortFrom(all, deaths, 1)

\* page.evaluate threw: outer catch closes the page and answers 500
EvaluateFail(r) ==
  /\ req[r].pc = "parse"
  /\ browsers' = ClosePage(req[r].browser)
  /\ req' = [req EXCEPT ![r] =
       Respond(req[r], 500, <<>>, FALSE, "extraction failed")]
  /\ UNCHANGED <<calls, queueState, now, ticks, peerState, cache, characterCache, requestLog, fastDeathsCache, sharedBrowser,
                 browserLaunching, gb>>

\* page.evaluate handed back the rows: partition them against the detail cache and
\* start the detail fetches (characterPromises), or go straight to page.close()
\* (the locals of the retry loop are dead from here on and are dropped)
Parse(r, list) ==
  /\ req[r].pc = "parse"
  /\ Connected(req[r].browser)
  /\ LET fetch == deathsToFetch(list)
         NewTask(d) == [death |-> d, st |-> "newPage", result |-> Enrich(d, Sentinel)]
         rec == [req[r] EXCEPT !.deaths = list, !.cached = <<>>, !.retryCount = 0,
                               !.budgets = <<>>, !.deadSeen = Null]
     IN req' = [req EXCEPT ![r] =
          IF Len(list) = 0
          THEN [rec EXCEPT !.pc = "closing", !.result = <<>>]
          ELSE IF Len(fetch) = 0
          THEN [rec EXCEPT !.pc = "closing",
                           !.result = SortByFindIndex(cachedDeaths(list), list)]
          ELSE [rec EXCEPT !.pc = "detail",
                           !.cachedDeaths = cachedDeaths(list),
                           !.quickDeaths = quickDeaths(list),
                           !.tasks = Map(fetch, NewTask)]]
  /\ UNCHANGED <<calls, queueState, now, ticks, peerState, cache, characterCache, requestLog, fastDeathsCache, sharedBrowser,
                 browserLaunching, browsers, gb>>

\* a detail fetch got its page: charPage = await browser.newPage()
DetailNewPageOk(r, i) ==
  /\ i \in DOMAIN req[r].tasks
  /\ req[r].tasks[i].st = "newPage"
  /\ Connected(req[r].browser)
  /\ browsers' = OpenPage(req[r].browser)
  /\ req' = [req EXCEPT ![r].tasks[i].st = "open"]
  /\ UNCHANGED <<calls, queueState, now, ticks, peerState, cache, characterCache, requestLog, fastDeathsCache, sharedBrowser,
                 browserLaunching, gb>>

\* browser.newPage() of a detail fetch rejected, outside the fetch's try block: the
\* promise rejects, Promise.all rejects and the handler's outer catch answers 500
DetailNewPageFail(r, i) ==
  /\ i \in DOMAIN req[r].tasks
  /\ req[r].tasks[i].st = "newPage"
  /\ ~Connected(req[r].browser)
  /\ browsers' = IF req[r].pc = "detail" THEN ClosePage(req[r].browser) ELSE browsers
  /\ req' = [req EXCEPT ![r] =
       LET t == [@ EXCEPT !.tasks[i].st = "rejected"]
       IN IF @.pc = "detail"
          THEN Respond(t, 500, <<>>, FALSE, "detail fetch failed")
          ELSE t]
  /\ UNCHANGED <<calls, queueState, now, ticks, peerState, cache, characterCache, requestLog, fastDeathsCache, sharedBrowser,
                 browserLaunching, gb>>

\* a detail fetch ran to its end: fetchCharacterData handed back c (the sentinels on
\* any failure), real data is cached, the page is closed
DetailDone(r, i, c) ==
  /\ i \in DOMAIN req[r].tasks
  /\ req[r].tasks[i].st = "open"
  /\ c \in DetailOutcomes
  /\ c # Sentinel => Connected(req[r].browser)
  /\ characterCache' =
       IF c.vocation # "Unknown" \/ c.residence # "Unknown"
       THEN Put(characterCache, req[r].tasks[i].death.player, [data |-> c, timestamp |-> now])
       ELSE characterCache
  /\ browsers' = ClosePage(req[r].browser)
  /\ req' = [req EXCEPT ![r].tasks[i] =
       [death |-> @.death, st |-> "done", result |-> Enrich(@.death, c)]]
  /\ UNCHANGED <<calls, queueState, now, ticks, peerState, cache, requestLog, fastDeathsCache, sharedBrowser,
                 browserLaunching, gb>>

\* Promise.all resolved: combine, sort back into page order, call page.close()
Merge(r) ==
  /\ req[r].pc = "detail"
  /\ \A i \in DOMAIN req[r].tasks : req[r].tasks[i].st = "done"
  /\ LET Result(t) == t.result
         all == req[r].cachedDeaths \o Map(req[r].tasks, Result) \o req[r].quickDeaths
     IN req' = [req EXCEPT ![r].pc = "closing",
                           ![r].result = SortByFindIndex(all, req[r].deaths)]
  /\ UNCHANGED <<calls, queueState, now, ticks, peerState, cache, characterCache, requestLog, fastDeathsCache, sharedBrowser,
                 browserLaunching, browsers, gb>>

\* a handler that answers the list without storing it
PageClosed_NoStore(r) ==
  /\ req[r].pc = "closing"
  /\ Connected(req[r].browser)
  /\ browsers' = ClosePage(req[r].browser)
  /\ req' = [req EXCEPT ![r] =
       Respond(@, 200, IF @.tasks = <<>> THEN @.result ELSE VipFilter(@.vip, @.result),
               FALSE, "fresh")]
  /\ UNCHANGED <<calls, queueState, now, ticks, peerState, cache, characterCache, requestLog,
                 fastDeathsCache, sharedBrowser, browserLaunching, gb>>
\* await page.close() resolved: store the list and answer
\* (the empty and the all-cached path answer the unfiltered list)
Stored(r) ==
  /\ req[r].pc = "closing"
  /\ Connected(req[r].browser)
  /\ browsers' = ClosePage(req[r].browser)
  /\ cache' = Put(cache, CacheKey(req[r].world), [data |-> req[r].result, timestamp |-> now])
  /\ req' = [req EXCEPT ![r] =
       Respond(@, 200, IF @.tasks = <<>> THEN @.result ELSE VipFilter(@.vip, @.result),
               FALSE, "fresh")]
  /\ UNCHANGED <<queueState, now, ticks, peerState, characterCache, requestLog, fastDeathsCache, sharedBrowser,
                 browserLaunching, gb>>
PageClosed(r) == Stored(r) /\ UNCHANGED calls

\* await page.close() rejected (the browser is gone): outer catch answers 500
PageCloseFail(r) ==
  /\ req[r].pc = "closing"
  /\ ~Connected(req[r].browser)
  /\ req' = [req EXCEPT ![r] =
       Respond(@, 500, <<>>, FALSE, "close failed")]
  /\ UNCHANGED <<calls, queueState, now, ticks, peerState, cache, characterCache, requestLog, fastDeathsCache, sharedBrowser,
                 browserLaunching, browsers, gb>>

\* -------------------------------------- server.js: GET /api/deaths-fast
\* `${worldId}_${minLevel || 'all'}`, for requests without a level filter
FastCacheKey(world) == <<world, "all">>
FAST_DEATHS_CACHE == 2000

\* fastDeathsCache && fastDeathsCache.key === fastCacheKey && age < FAST_DEATHS_CACHE
FastFresh(world) ==
  /\ fastDeathsCache # <<>>
  /\ fastDeathsCache[1].key = FastCacheKey(world)
  /\ now - fastDeathsCache[1].timestamp < FAST_DEATHS_CACHE

\* the placeholders of the fast list
Loading == [vocation |-> "Loading...", residence |-> "Loading...",
            accountStatus |-> "Loading...", guild |-> "Loading..."]

FastArriveTooFast(r, ip, world) ==
  /\ req[r].pc = "idle"
  /\ MiddlewareRejects(ip)
  /\ req' = [req EXCEPT ![r] =
       Respond([req[r] EXCEPT !.kind = "fast", !.ip = ip, !.world = world,
                              !.freshAtArrival = FastFresh(world)],
               429, <<>>, FALSE, "denied")]
  /\ UNCHANGED <<calls, queueState, now, ticks, peerState, cache, characterCache, requestLog, fastDeathsCache, sharedBrowser,
                 browserLaunching, browsers, gb>>

FastArriveHit(r, ip, world) ==
  /\ req[r].pc = "idle"
  /\ ~MiddlewareRejects(ip)
  /\ FastFresh(world)
  /\ requestLog' = MiddlewarePass(ip)
  /\ req' = [req EXCEPT ![r] =
       Respond([req[r] EXCEPT !.kind = "fast", !.ip = ip, !.world = world,
                              !.freshAtArrival = TRUE, !.hadCached = TRUE,
                              !.rateTouched = (MiddlewarePass(ip) # requestLog)],
               200, fastDeathsCache[1].deaths, FALSE, "hit")]
  /\ UNCHANGED <<calls, queueState, now, ticks, peerState, cache, characterCache, fastDeathsCache, sharedBrowser,
                 browserLaunching, browsers, gb>>

FastArriveMiss(r, ip, world) ==
  /\ req[r].pc = "idle"
  /\ ~MiddlewareRejects(ip)
  /\ ~FastFresh(world)
  /\ requestLog' = logRateLimitRequest(MiddlewarePass(ip), ip)
  /\ CallGetBrowser(r, [req[r] EXCEPT !.kind = "fast", !.ip = ip, !.world = world,
                                      !.rateTouched = TRUE])
  /\ UNCHANGED <<calls, queueState, now, ticks, peerState, cache, characterCache, fastDeathsCache, sharedBrowser, browsers>>

\* const page = await browser.newPage() resolved; page.goto is called
FastNewPageOk(r) ==
  /\ req[r].pc = "newPage"
  /\ req[r].kind = "fast"
  /\ Connected(req[r].browser)
  /\ browsers' = OpenPage(req[r].browser)
  /\ req' = [req EXCEPT ![r].pc = "fastGoto", ![r].page = "open"]
  /\ UNCHANGED <<calls, queueState, now, ticks, peerState, cache, characterCache, requestLog, fastDeathsCache, sharedBrowser,
                 browserLaunching, gb>>

\* browser.newPage() rejected: catch answers 500
FastNewPageFail(r) ==
  /\ req[r].pc = "newPage"
  /\ req[r].kind = "fast"
  /\ ~Connected(req[r].browser)
  /\ req' = [req EXCEPT ![r] = Respond(@, 500, <<>>, FALSE, "newPage failed")]
  /\ UNCHANGED <<calls, queueState, now, ticks, peerState, cache, characterCache, requestLog, fastDeathsCache, sharedBrowser,
                 browserLaunching, browsers, gb>>

\* the handler's catch: it answers 500 and leaves `page` as it is
FastCatch(rec, how) ==
  [Respond(rec, 500, <<>>, FALSE, how) EXCEPT !.page = rec.page]

\* page.goto timed out or failed: catch answers 500
FastGotoFail(r) ==
  /\ req[r].pc = "fastGoto"
  /\ req' = [req EXCEPT ![r] = FastCatch(@, "goto failed")]
  /\ UNCHANGED <<calls, queueState, now, ticks, peerState, cache, characterCache, requestLog, fastDeathsCache, sharedBrowser,
                 browserLaunching, browsers, gb>>

\* page.goto resolved; waitForSelector resolved or timed out (its catch continues)
FastGotoOk(r) ==
  /\ req[r].pc = "fastGoto"
  /\ Connected(req[r].browser)
  /\ req' = [req EXCEPT ![r].pc = "fastParse"]
  /\ UNCHANGED <<calls, queueState, now, ticks, peerState, cache, characterCache, requestLog, fastDeathsCache, sharedBrowser,
                 browserLaunching, browsers, gb>>

\* page.evaluate threw: catch answers 500
FastEvaluateFail(r) ==
  /\ req[r].pc = "fastParse"
  /\ req' = [req EXCEPT ![r] = FastCatch(@, "extraction failed")]
  /\ UNCHANGED <<calls, queueState, now, ticks, peerState, cache, characterCache, requestLog, fastDeathsCache, sharedBrowser,
                 browserLaunching, browsers, gb>>

\* page.evaluate handed back the rows with their placeholders; page.close() is called
FastParse(r, list) ==
  /\ req[r].pc = "fastParse"
  /\ Connected(req[r].browser)
  /\ LET Placeholder(d) == Enrich(d, Loading)
     IN req' = [req EXCEPT ![r].pc = "fastClosing", ![r].deaths = list,
                           ![r].result = Map(list, Placeholder)]
  /\ UNCHANGED <<calls, queueState, now, ticks, peerState, cache, characterCache, requestLog, fastDeathsCache, sharedBrowser,
                 browserLaunching, browsers, gb>>

\* await page.close() resolved: store the list in the fast cache and answer
FastPageClosed(r) ==
  /\ req[r].pc = "fastClosing"
  /\ Connected(req[r].browser)
  /\ browsers' = ClosePage(req[r].browser)
  /\ fastDeathsCache' = <<[key |-> FastCacheKey(req[r].world), deaths |-> req[r].result,
                           timestamp |-> now]>>
  /\ req' = [req EXCEPT ![r] = Respond(@, 200, @.result, FALSE, "fresh")]
  /\ UNCHANGED <<calls, queueState, now, ticks, peerState, cache, characterCache, requestLog, sharedBrowser,
                 browserLaunching, gb>>

\* await page.close() rejected: catch answers 500
FastPageCloseFail(r) ==
  /\ req[r].pc = "fastClosing"
  /\ ~Connected(req[r].browser)
  /\ req' = [req EXCEPT ![r] = FastCatch(@, "close failed")]
  /\ UNCHANGED <<calls, queueState, now, ticks, peerState, cache, characterCache, requestLog, fastDeathsCache, sharedBrowser,
                 browserLaunching, browsers, gb>>

\* =============================================== src/unnamed/part_004
\* The queue variant: the /api/deaths handler hands the primary fetch to
\* processRequestQueue, which runs fetchDeathsFromRubinOT for one task at a time.
MAX_RUBINOT_FETCHES_PER_MINUTE == 30
MIN_RUBINOT_INTERVAL == 2000
\* the literal 500 of processRequestQueue ("Small delay between requests")
QUEUE_DELAY == 500
\* the one identity checkRubinOTRateLimit is ever called with
ServerQueue == "server-queue"

\* the placeholder details fetchDeathsFromRubinOT gives every parsed row
Placeholder == [vocation |-> "Unknown", residence |-> "Loading...",
                accountStatus |-> "Loading...", guild |-> ""]
FreeAccount == [vocation |-> "Druid", residence |-> "Venore",
                accountStatus |-> "Free Account", guild |-> ""]
\* what page.evaluate of fetchCharacterData can hand back
CharacterData == {RealVip, FreeAccount}

IdleWorker == [pc |-> "idle", task |-> "none", retryCount |-> 0, browser |-> Null,
               budgets |-> <<>>, deaths |-> <<>>, wake |-> 0, deadSeen |-> Null]

\* one admission call: the limiter asked, the time of the call, the verdict
Call(by, t, allowed) == [by |-> by, t |-> t, allowed |-> allowed]

\* no request has reached the queue yet
QueueIdle ==
  /\ calls = <<>>
  /\ requestQueue = <<>>
  /\ isProcessingQueue = FALSE
  /\ rubinOTRequestLog = <<>>
  /\ worker = IdleWorker

\* checkRubinOTRateLimit(ip) at time t on log: the verdict and the log it leaves
checkRubinOTRateLimit_StampsDenials(log, ip, t) ==
  LET log1 == IF ip \in DOMAIN log THEN log
              ELSE Put(log, ip, [requests |-> <<>>, lastRequest |-> 0])
      ipData == log1[ip]
      InWindow(x) == t - x < RATE_LIMIT_WINDOW
      recentRequests == SelectSeq(ipData.requests, InWindow)
  IN IF ipData.lastRequest > 0 /\ t - ipData.lastRequest < MIN_RUBINOT_INTERVAL
     THEN [allowed |-> FALSE, log |-> Put(log1, ip, [ipData EXCEPT !.lastRequest = t])]
     ELSE IF Len(recentRequests) >= MAX_RUBINOT_FETCHES_PER_MINUTE
     THEN [allowed |-> FALSE, log |-> log1]
     ELSE [allowed |-> TRUE,
           log |-> Put(log1, ip, [requests |-> Append(recentRequests, t),
                                  lastRequest |-> t])]
\* checkRubinOTRateLimit without its minimum-interval rule
checkRubinOTRateLimit_WindowOnly(log, ip, t) ==
  LET log1 == IF ip \in DOMAIN log THEN log
              ELSE Put(log, ip, [requests |-> <<>>, lastRequest |-> 0])
      ipData == log1[ip]
      InWindow(x) == t - x < RATE_LIMIT_WINDOW
      recentRequests == SelectSeq(ipData.requests, InWindow)
  IN IF Len(recentRequests) >= MAX_RUBINOT_FETCHES_PER_MINUTE
     THEN [allowed |-> FALSE, log |-> log1]
     ELSE [allowed |-> TRUE,
           log |-> Put(log1, ip, [requests |-> Append(recentRequests, t),
                                  lastRequest |-> t])]
checkRubinOTRateLimit(log, ip, t) ==
  LET log1 == IF ip \in DOMAIN log THEN log
              ELSE Put(log, ip, [requests |-> <<>>, lastRequest |-> 0])
      ipData == log1[ip]
      InWindow(x) == t - x < RATE_LIMIT_WINDOW
      recentRequests == SelectSeq(ipData.requests, InWindow)
  IN IF ipData.lastRequest > 0 /\ t - ipData.lastRequest < MIN_RUBINOT_INTERVAL
     THEN [allowed |-> FALSE, log |-> log1]
     ELSE IF Len(recentRequests) >= MAX_RUBINOT_FETCHES_PER_MINUTE
     THEN [allowed |-> FALSE, log |-> log1]
     ELSE [allowed |-> TRUE,
           log |-> Put(log1, ip, [requests |-> Append(recentRequests, t),
                                  lastRequest |-> t])]

\* the synchronous head of part_004's getBrowser, the launch flag being `launching`
getBrowserQ(launching) ==
  IF Connected(sharedBrowser) THEN "return"
  ELSE IF launching THEN "wait"
  ELSE "launch"

\* a timer set for time `wake` fires: the clock is then at least there
Fired(wake) == IF now < wake THEN wake ELSE now

\* one pass of the while loop of processRequestQueue, from its condition to its first
\* await: queue q, clock t, launch flag `launching`
LoopTop(q, t, launching) ==
  IF Len(q) = 0
  THEN /\ requestQueue' = q
       /\ isProcessingQueue' = FALSE
       /\ worker' = IdleWorker
       /\ rubinOTRequestLog' = rubinOTRequestLog
       /\ browserLaunching' = launching
       /\ calls' = calls
  ELSE LET task == Head(q)
           check == checkRubinOTRateLimit(rubinOTRequestLog, ServerQueue, t)
           o == getBrowserQ(launching)
       IN /\ isProcessingQueue' = TRUE
          /\ rubinOTRequestLog' = check.log
          /\ calls' = Append(calls, Call("queue", t, check.allowed))
          /\ IF ~check.allowed
             THEN \* requestQueue.unshift(task), then wait MIN_RUBINOT_INTERVAL
                  /\ requestQueue' = <<task>> \o Tail(q)
                  /\ worker' = [IdleWorker EXCEPT !.pc = "rateWait",
                                                  !.wake = t + MIN_RUBINOT_INTERVAL]
                  /\ browserLaunching' = launching
             ELSE \* fetchDeathsFromRubinOT: const browser = await getBrowser()
                  /\ requestQueue' = Tail(q)
                  /\ worker' = IF o = "return"
                               THEN [IdleWorker EXCEPT !.task = task, !.pc = "newPage",
                                                       !.browser = sharedBrowser]
                               ELSE [IdleWorker EXCEPT !.task = task, !.pc = o]
                  /\ browserLaunching' = (launching \/ o = "launch")

\* a processRequestQueue that starts a loop although one is running
ReturnsAtOnce_IgnoresFlag(processing, q) == Len(q) = 0
\* the first statement of processRequestQueue: return when a loop is running or the
\* queue is empty
ReturnsAtOnce(processing, q) == processing \/ Len(q) = 0

\* the catch block of the handler: the stale entry with X-Stale-Cache, or 500
HandlerCatch(rec) ==
  IF rec.cached # <<>>
  THEN Respond(rec, 200, VipFilter(rec.vip, rec.cached[1].data), TRUE, "stale")
  ELSE Respond(rec, 500, <<>>, FALSE, "fetch failed")

\* a catch block that swallows the error: the promise of the task stays pending
Rejected_NeverSettles(launching) ==
  /\ req' = req
  /\ LoopTop(requestQueue, now, launching)

\* fetchDeathsFromRubinOT threw: reject(error), the handler's catch answers, and the
\* while loop goes on with the next task
Rejected(launching) ==
  /\ req' = [req EXCEPT ![worker.task] = HandlerCatch(@)]
  /\ LoopTop(requestQueue, now, launching)

\* GET /api/deaths finds a fresh entry: answered from the cache, nothing else touched
ArriveHitQ(r, world, vip) ==
  /\ req[r].pc = "idle"
  /\ Fresh(CacheKey(world))
  /\ req' = [req EXCEPT ![r] =
       Respond([@ EXCEPT !.kind = "queue", !.world = world, !.vip = vip,
                         !.freshAtArrival = TRUE, !.hadCached = TRUE],
               200, VipFilter(vip, cache[CacheKey(world)].data), FALSE, "hit")]
  /\ UNCHANGED <<calls, queueState, directState, now, ticks, peerState, cache, characterCache, sharedBrowser,
                 browserLaunching, browsers>>

\* a queueRubinOTRequest that puts its task in front of the waiting ones
push_Front(q, task) == <<task>> \o q
\* requestQueue.push(task) of queueRubinOTRequest: the task goes behind the waiting ones
push(q, task) == Append(q, task)

\* GET /api/deaths misses the cache: queueRubinOTRequest pushes the task and calls
\* processRequestQueue, which returns at once when a loop is already running
ArriveMissQ(r, world, vip) ==
  /\ req[r].pc = "idle"
  /\ ~Fresh(CacheKey(world))
  /\ req' = [req EXCEPT ![r] =
       [@ EXCEPT !.kind = "queue", !.world = world, !.vip = vip, !.pc = "queued",
                 !.hadCached = CacheKey(world) \in DOMAIN cache,
                 !.cached = IF CacheKey(world) \in DOMAIN cache
                            THEN <<cache[CacheKey(world)]>> ELSE <<>>]]
  /\ IF ReturnsAtOnce(isProcessingQueue, push(requestQueue, r))
     THEN /\ requestQueue' = push(requestQueue, r)
          /\ UNCHANGED <<isProcessingQueue, rubinOTRequestLog, worker, browserLaunching,
                         calls>>
     ELSE LoopTop(push(requestQueue, r), now, browserLaunching)
  /\ UNCHANGED <<directState, now, ticks, peerState, cache, characterCache, sharedBrowser, browsers>>

\* setTimeout(resolve, MIN_RUBINOT_INTERVAL) fired after a denial: continue
RateWaitDone ==
  /\ worker.pc = "rateWait"
  /\ now' = Fired(worker.wake)
  /\ LoopTop(requestQueue, now', browserLaunching)
  /\ UNCHANGED <<directState, ticks, peerState, cache, characterCache, sharedBrowser, browsers, req>>

\* setTimeout(resolve, 500) fired after a served task: next pass of the loop
QueueDelayDone ==
  /\ worker.pc = "delay"
  /\ now' = Fired(worker.wake)
  /\ LoopTop(requestQueue, now', browserLaunching)
  /\ UNCHANGED <<directState, ticks, peerState, cache, characterCache, sharedBrowser, browsers, req>>

\* puppeteer.launch resolved for the queue processor
WorkerLaunchOk ==
  /\ worker.pc = "launch"
  /\ browsers' = Append(browsers, [connected |-> TRUE, pages |-> 0])
  /\ sharedBrowser' = Len(browsers) + 1
  /\ browserLaunching' = FALSE
  /\ worker' = [worker EXCEPT !.pc = "newPage", !.browser = Len(browsers) + 1]
  /\ UNCHANGED <<calls, directState, now, ticks, peerState, cache, characterCache, req, requestQueue,
                 isProcessingQueue, rubinOTRequestLog>>

\* puppeteer.launch rejected: finally resets the flag, the error leaves the fetch
WorkerLaunchFail ==
  /\ worker.pc = "launch"
  /\ Rejected(FALSE)
  /\ UNCHANGED <<directState, now, ticks, peerState, cache, characterCache, sharedBrowser, browsers>>

\* page = await browser.newPage() resolved; the page is set up and page.goto is called
WorkerNewPageOk ==
  /\ worker.pc = "newPage"
  /\ Connected(worker.browser)
  /\ browsers' = OpenPage(worker.browser)
  /\ worker' = [worker EXCEPT !.pc = "goto",
                  !.budgets = Append(@, [goto |-> gotoTimeout(worker.retryCount),
                                         selector |-> selectorTimeout(worker.retryCount)])]
  /\ UNCHANGED <<calls, directState, now, ticks, peerState, cache, characterCache, sharedBrowser,
                 browserLaunching, req, requestQueue, isProcessingQueue, rubinOTRequestLog>>

\* the catch (error) block of the retry loop, the page already closed: count the
\* attempt, then throw or wait for the next one
WorkerAttemptFailed ==
  LET n == worker.retryCount + 1
      w == [worker EXCEPT !.retryCount = n,
               !.budgets = IF Len(@) = worker.retryCount
                           THEN Append(@, [goto |-> 0, selector |-> 0]) ELSE @,
               !.deadSeen = IF ~Connected(worker.browser) THEN worker.browser ELSE @]
  IN IF n > MAX_RETRIES
     THEN Rejected(browserLaunching)
     ELSE /\ worker' = [w EXCEPT !.pc = "backoff"]
          /\ UNCHANGED <<req, requestQueue, isProcessingQueue, rubinOTRequestLog,
                         browserLaunching, calls>>

\* browser.newPage() rejected: the handle got before the loop is disconnected
WorkerNewPageFail ==
  /\ worker.pc = "newPage"
  /\ ~Connected(worker.browser)
  /\ WorkerAttemptFailed
  /\ UNCHANGED <<directState, now, ticks, peerState, cache, characterCache, sharedBrowser, browsers>>

WorkerGotoOk ==
  /\ worker.pc = "goto"
  /\ Connected(worker.browser)
  /\ worker' = [worker EXCEPT !.pc = "waitForSelector"]
  /\ UNCHANGED <<calls, directState, now, ticks, peerState, cache, characterCache, sharedBrowser, browsers,
                 browserLaunching, req, requestQueue, isProcessingQueue, rubinOTRequestLog>>

WorkerGotoFail ==
  /\ worker.pc = "goto"
  /\ browsers' = ClosePage(worker.browser)
  /\ WorkerAttemptFailed
  /\ UNCHANGED <<directState, now, ticks, peerState, cache, characterCache, sharedBrowser>>

\* waitForSelector found the table, or timed out with some content on the page: break
WorkerTableFound ==
  /\ worker.pc = "waitForSelector"
  /\ Connected(worker.browser)
  /\ worker' = [worker EXCEPT !.pc = "parse"]
  /\ UNCHANGED <<calls, directState, now, ticks, peerState, cache, characterCache, sharedBrowser, browsers,
                 browserLaunching, req, requestQueue, isProcessingQueue, rubinOTRequestLog>>

\* waitForSelector timed out and the page has no content: throw selectorError
WorkerNoContainer ==
  /\ worker.pc = "waitForSelector"
  /\ browsers' = ClosePage(worker.browser)
  /\ WorkerAttemptFailed
  /\ UNCHANGED <<directState, now, ticks, peerState, cache, characterCache, sharedBrowser>>

\* setTimeout(resolve, waitTime) fired: next iteration of the retry loop
WorkerBackoffDone ==
  /\ worker.pc = "backoff"
  /\ worker' = [worker EXCEPT !.pc = "newPage"]
  /\ UNCHANGED <<calls, directState, now, ticks, peerState, cache, characterCache, sharedBrowser, browsers,
                 browserLaunching, req, requestQueue, isProcessingQueue, rubinOTRequestLog>>

\* page.evaluate handed back the rows; page.close() is called
WorkerParse(list) ==
  /\ worker.pc = "parse"
  /\ Connected(worker.browser)
  /\ worker' = [worker EXCEPT !.pc = "closing", !.deaths = list]
  /\ UNCHANGED <<calls, directState, now, ticks, peerState, cache, characterCache, sharedBrowser, browsers,
                 browserLaunching, req, requestQueue, isProcessingQueue, rubinOTRequestLog>>

\* page.evaluate threw: the outer catch closes the page and rethrows
WorkerEvaluateFail ==
  /\ worker.pc = "parse"
  /\ browsers' = ClosePage(worker.browser)
  /\ Rejected(browserLaunching)
  /\ UNCHANGED <<directState, now, ticks, peerState, cache, characterCache, sharedBrowser>>

\* await page.close() rejected (the browser is gone): the outer catch rethrows
WorkerPageCloseFail ==
  /\ worker.pc = "closing"
  /\ ~Connected(worker.browser)
  /\ Rejected(browserLaunching)
  /\ UNCHANGED <<directState, now, ticks, peerState, cache, characterCache, sharedBrowser, browsers>>

\* deaths.filter(d => !characterCache.has(cacheKey))
uncachedDeathsQ(deaths, cc) ==
  LET Miss(d) == d.player \notin DOMAIN cc IN SelectSeq(deaths, Miss)

\* the two deaths.forEach passes of the handler: the fetched data of the first
\* non-null result for the player, then whatever the detail cache holds for the player
mergeQ(deaths, tasks, cc) ==
  LET Found(d) == {i \in DOMAIN tasks :
                     tasks[i].result # <<>> /\ tasks[i].death.player = d.player}
      First(S) == CHOOSE i \in S : \A j \in S : i <= j
      Merged(d) == IF d.player \in DOMAIN cc THEN Enrich(d, cc[d.player].data)
                   ELSE IF Found(d) # {} THEN Enrich(d, tasks[First(Found(d))].result[1])
                   ELSE Enrich(d, Placeholder)
  IN Map(deaths, Merged)

\* the handler after the detail fetch of tasks2[i] ended, the detail cache being cc:
\* Promise.all resolves with the last fetch and the handler runs to its answer
AfterDetail(r, tasks2, cc) ==
  IF \A j \in DOMAIN tasks2 : tasks2[j].st = "done"
  THEN LET finalDeaths == VipFilter(req[r].vip, mergeQ(req[r].deaths, tasks2, cc))
       IN /\ cache' = Put(cache, CacheKey(req[r].world),
                          [data |-> finalDeaths, timestamp |-> now])
          /\ req' = [req EXCEPT ![r] =
               Respond([@ EXCEPT !.tasks = tasks2], 200, finalDeaths, FALSE, "fresh")]
  ELSE /\ req' = [req EXCEPT ![r].tasks = tasks2]
       /\ UNCHANGED cache

\* await page.close() resolved: fetchDeathsFromRubinOT returns the rows, resolve(result),
\* the loop sleeps QUEUE_DELAY, and the handler goes on: it starts fetchCharacterData
\* for every row without a detail-cache entry (getBrowser() hands back the browser the
\* page was just closed on), or finishes at once
WorkerPageClosed ==
  /\ worker.pc = "closing"
  /\ Connected(worker.browser)
  /\ browsers' = ClosePage(worker.browser)
  /\ worker' = [IdleWorker EXCEPT !.pc = "delay", !.wake = now + QUEUE_DELAY]
  /\ LET r == worker.task
         NewTask(d) == [death |-> d, st |-> "newPage", result |-> <<>>]
         fetch == uncachedDeathsQ(worker.deaths, characterCache)
     IN IF Len(fetch) > 0
        THEN /\ req' = [req EXCEPT ![r].pc = "detail", ![r].deaths = worker.deaths,
                                   ![r].browser = sharedBrowser,
                                   ![r].tasks = Map(fetch, NewTask)]
             /\ UNCHANGED cache
        ELSE LET finalDeaths ==
                   VipFilter(req[r].vip, mergeQ(worker.deaths, <<>>, characterCache))
             IN /\ cache' = Put(cache, CacheKey(req[r].world),
                                [data |-> finalDeaths, timestamp |-> now])
                /\ req' = [req EXCEPT ![r] =
                     Respond([@ EXCEPT !.deaths = worker.deaths], 200, finalDeaths,
                             FALSE, "fresh")]
  /\ UNCHANGED <<calls, directState, now, ticks, peerState, characterCache, sharedBrowser, browserLaunching,
                 requestQueue, isProcessingQueue, rubinOTRequestLog>>

\* fetchCharacterData: const page = await browser.newPage() resolved
CharNewPageOk(r, i) ==
  /\ req[r].kind = "queue"
  /\ i \in DOMAIN req[r].tasks
  /\ req[r].tasks[i].st = "newPage"
  /\ Connected(req[r].browser)
  /\ browsers' = OpenPage(req[r].browser)
  /\ req' = [req EXCEPT ![r].tasks[i].st = "open"]
  /\ UNCHANGED <<calls, queueState, directState, now, ticks, peerState, cache, characterCache, sharedBrowser,
                 browserLaunching>>

\* fetchCharacterData: browser.newPage() rejected inside the try block: return null
CharNewPageFail(r, i) ==
  /\ req[r].kind = "queue"
  /\ i \in DOMAIN req[r].tasks
  /\ req[r].tasks[i].st = "newPage"
  /\ ~Connected(req[r].browser)
  /\ AfterDetail(r, [req[r].tasks EXCEPT ![i].st = "done"], characterCache)
  /\ UNCHANGED <<calls, queueState, directState, now, ticks, peerState, characterCache, sharedBrowser,
                 browserLaunching, browsers>>

\* fetchCharacterData: goto, waitForSelector, evaluate and page.close() went through:
\* the data is cached and returned
CharLoaded(r, i, c) ==
  /\ req[r].kind = "queue"
  /\ i \in DOMAIN req[r].tasks
  /\ req[r].tasks[i].st = "open"
  /\ Connected(req[r].browser)
  /\ browsers' = ClosePage(req[r].browser)
  /\ characterCache' = Put(characterCache, req[r].tasks[i].death.player,
                           [data |-> c, timestamp |-> now])
  /\ AfterDetail(r, [req[r].tasks EXCEPT
                       ![i] = [death |-> @.death, st |-> "done", result |-> <<c>>]],
                 characterCache')
  /\ UNCHANGED <<calls, queueState, directState, now, ticks, peerState, sharedBrowser, browserLaunching>>

\* fetchCharacterData: goto or waitForSelector timed out, or evaluate threw: the catch
\* block returns null, and nothing closes the page
CharLoadFail(r, i) ==
  /\ req[r].kind = "queue"
  /\ i \in DOMAIN req[r].tasks
  /\ req[r].tasks[i].st = "open"
  /\ AfterDetail(r, [req[r].tasks EXCEPT ![i].st = "done"], characterCache)
  /\ UNCHANGED <<calls, queueState, directState, now, ticks, peerState, characterCache, sharedBrowser,
                 browserLaunching, browsers>>

\* the setInterval sweep of rubinOTRequestLog
sweepRubinOTRequestLog(log, t) ==
  LET InWindow(x) == t - x < RATE_LIMIT_WINDOW
      Kept(ip) == SelectSeq(log[ip].requests, InWindow)
      Stays(ip) == ~(Len(Kept(ip)) = 0 /\ t - log[ip].lastRequest > RATE_LIMIT_WINDOW)
  IN [ip \in {x \in DOMAIN log : Stays(x)} |-> [log[ip] EXCEPT !.requests = Kept(ip)]]

Cleanup ==
  /\ rubinOTRequestLog' = sweepRubinOTRequestLog(rubinOTRequestLog, now)
  /\ UNCHANGED <<calls, directState, now, ticks, peerState, cache, characterCache, sharedBrowser,
                 browserLaunching, browsers, req, requestQueue, isProcessingQueue, worker>>

\* ------------------------------------------- server.js: the setInterval cleanup
\* the literals of the cleanup: the size above which the detail cache is trimmed, the
\* number of entries a trim deletes, the multiple of CACHE_DURATION a list entry may reach
SWEEP_THRESHOLD == 100
SWEEP_EVICT == 30
SWEEP_AGE_FACTOR == 3

\* for (const [key, value] of cache.entries()) if (now - value.timestamp > ...) delete
sweepCache(c, t) ==
  LET Stays(k) == ~(t - c[k].timestamp > CACHE_DURATION * SWEEP_AGE_FACTOR)
  IN [k \in {x \in DOMAIN c : Stays(x)} |-> c[k]]

\* the requestLog pass of the cleanup
sweepRequestLog(log, t) ==
  LET InWindow(x) == t - x < RATE_LIMIT_WINDOW
      Kept(ip) == SelectSeq(log[ip].requests, InWindow)
      Stays(ip) == ~(Len(Kept(ip)) = 0 /\ t - log[ip].lastRequest > RATE_LIMIT_WINDOW)
  IN [ip \in {x \in DOMAIN log : Stays(x)} |-> [log[ip] EXCEPT !.requests = Kept(ip)]]

\* if (characterCache.size > 100): Array.from(entries), sort by timestamp, slice(0, 30),
\* delete. The sort is stable, so of two entries of one timestamp the one inserted
\* first comes first: the keys of a cache large enough to be trimmed are numbers in
\* the order of insertion
sweepCharacterCache(cc) ==
  IF Cardinality(DOMAIN cc) > SWEEP_THRESHOLD
  THEN LET Before(j, i) ==
             \/ cc[j].timestamp < cc[i].timestamp
             \/ cc[j].timestamp = cc[i].timestamp /\ j < i
           Rank(i) == Cardinality({j \in DOMAIN cc : Before(j, i)})
       IN [k \in {i \in DOMAIN cc : Rank(i) >= SWEEP_EVICT} |-> cc[k]]
  ELSE cc

\* one operation on a cache, for the properties: what was done, on which key, when,
\* and the verdict of a lookup
CacheCall(op, key, t, hit) == [by |-> op, key |-> key, t |-> t, allowed |-> hit]

\* the setInterval callback of server.js runs
CleanupServer ==
  /\ cache' = sweepCache(cache, now)
  /\ characterCache' = sweepCharacterCache(characterCache)
  /\ requestLog' = sweepRequestLog(requestLog, now)
  /\ calls' = Append(calls, CacheCall("sweep", <<>>, now, TRUE))
  /\ UNCHANGED <<queueState, now, ticks, peerState, fastDeathsCache, sharedBrowser, browserLaunching,
                 browsers, gb, req>>

\* ------------------------------------------------------ specifications
Init ==
  /\ now = 1
  /\ ticks = 0
  /\ PeersIdle
  /\ cache = <<>>
  /\ characterCache = <<>>
  /\ requestLog = <<>>
  /\ fastDeathsCache = <<>>
  /\ sharedBrowser = Null
  \* the pre-warm IIFE has called getBrowser(), which is awaiting puppeteer.launch
  /\ browserLaunching = TRUE
  /\ browsers = <<>>
  /\ gb = [p \in Procs |-> IF p = Prewarm THEN "launch" ELSE "none"]
  /\ req = [r \in Reqs |-> IdleReq]
  /\ QueueIdle

Next ==
  \/ \E d \in TickSteps : Tick(d)
  \/ \E p \in Procs : GetBrowserRetry(p) \/ LaunchOk(p) \/ LaunchFail(p)
  \/ \E b \in DOMAIN browsers : BrowserDies(b)
  \/ \E r \in Reqs, ip \in IPs, w \in Worlds, vip \in BOOLEAN :
        ArriveTooFast(r, ip, w, vip) \/ ArriveHit(r, ip, w, vip) \/ ArriveMiss(r, ip, w, vip)
  \/ \E r \in Reqs :
        \/ NewPageOk(r) \/ NewPageFail(r) \/ GotoOk(r) \/ GotoFail(r)
        \/ TableFound(r) \/ ContainerOnly(r) \/ NoContainer(r) \/ BackoffDone(r)
        \/ EvaluateFail(r) \/ Merge(r) \/ PageClosed(r) \/ PageCloseFail(r)
        \/ \E list \in Lists(MaxRows) : Parse(r, list)
        \/ \E i \in 1..PRIORITY_FETCH :
              \/ DetailNewPageOk(r, i) \/ DetailNewPageFail(r, i)
              \/ \E c \in DetailOutcomes : DetailDone(r, i, c)

Spec == Init /\ [][Next]_vars

\* server.js, GET /api/deaths-fast alone
Environment ==
  \/ \E d \in TickSteps : Tick(d)
  \/ \E p \in Procs : GetBrowserRetry(p) \/ LaunchOk(p) \/ LaunchFail(p)
  \/ \E b \in DOMAIN browsers : BrowserDies(b)

NextFast ==
  \/ Environment
  \/ \E r \in Reqs, ip \in IPs, w \in Worlds :
        FastArriveTooFast(r, ip, w) \/ FastArriveHit(r, ip, w) \/ FastArriveMiss(r, ip, w)
  \/ \E r \in Reqs :
        \/ FastNewPageOk(r) \/ FastNewPageFail(r) \/ FastGotoOk(r) \/ FastGotoFail(r)
        \/ FastEvaluateFail(r) \/ FastPageClosed(r) \/ FastPageCloseFail(r)
        \/ \E list \in Lists(MaxRows) : FastParse(r, list)

SpecFast == Init /\ [][NextFast]_vars

\* server.js, every caller of getBrowser() side by side: the pre-warm, GET /api/deaths
\* with its retry loop and GET /api/deaths-fast, over an upstream page without rows
NextBrowser ==
  \/ Environment
  \/ \E r \in Reqs, ip \in IPs, w \in Worlds :
        \/ ArriveTooFast(r, ip, w, FALSE) \/ ArriveHit(r, ip, w, FALSE)
        \/ ArriveMiss(r, ip, w, FALSE)
        \/ FastArriveTooFast(r, ip, w) \/ FastArriveHit(r, ip, w) \/ FastArriveMiss(r, ip, w)
  \/ \E r \in Reqs :
        \/ NewPageOk(r) \/ NewPageFail(r) \/ GotoOk(r) \/ GotoFail(r)
        \/ TableFound(r) \/ ContainerOnly(r) \/ NoContainer(r) \/ BackoffDone(r)
        \/ EvaluateFail(r) \/ Parse(r, <<>>) \/ PageClosed(r) \/ PageCloseFail(r)
        \/ FastNewPageOk(r) \/ FastNewPageFail(r) \/ FastGotoOk(r) \/ FastGotoFail(r)
        \/ FastEvaluateFail(r) \/ FastParse(r, <<>>) \/ FastPageClosed(r)
        \/ FastPageCloseFail(r)

SpecBrowser == Init /\ [][NextBrowser]_vars

\* server.js, the enrichment phase of one GET /api/deaths request, from the moment the
\* retry loop has left it with a loaded page, over every detail-cache content
EntryAges == {"absent", "fresh", "expired"}
InitEnrich ==
  /\ now = CHARACTER_CACHE_DURATION + 1
  /\ ticks = 0
  /\ PeersIdle
  /\ cache = <<>>
  /\ \E age \in [Players -> EntryAges] :
        characterCache = [p \in {q \in Players : age[q] # "absent"} |->
                            [data |-> RealVip,
                             timestamp |-> IF age[p] = "fresh" THEN now ELSE 1]]
  /\ requestLog = [ip \in {"ip1"} |-> [requests |-> <<now>>, lastRequest |-> now]]
  /\ fastDeathsCache = <<>>
  /\ sharedBrowser = 1
  /\ browserLaunching = FALSE
  /\ browsers = <<[connected |-> TRUE, pages |-> 1]>>
  /\ gb = [p \in Procs |-> "none"]
  /\ \E vip \in BOOLEAN :
        req = [r \in Reqs |->
                 IF r = "r1"
                 THEN [IdleReq EXCEPT !.pc = "parse", !.vip = vip, !.rateTouched = TRUE,
                                      !.browser = 1, !.page = "open",
                                      !.budgets = <<[goto |-> gotoTimeout(0),
                                                     selector |-> selectorTimeout(0)]>>]
                 ELSE IdleReq]
  /\ QueueIdle

NextEnrich ==
  \/ \E b \in DOMAIN browsers : BrowserDies(b)
  \/ \E r \in Reqs :
        \/ EvaluateFail(r) \/ Merge(r) \/ PageClosed(r) \/ PageCloseFail(r)
        \/ \E list \in Lists(MaxLen) : Parse(r, list)
        \/ \E i \in 1..PRIORITY_FETCH :
              \/ DetailNewPageOk(r, i) \/ DetailNewPageFail(r, i)
              \/ \E c \in DetailOutcomes : DetailDone(r, i, c)

SpecEnrich == InitEnrich /\ [][NextEnrich]_vars

\* part_004: nothing is launched before the first request
InitQ ==
  /\ now = 1
  /\ ticks = 0
  /\ PeersIdle
  /\ cache = <<>>
  /\ characterCache = <<>>
  /\ requestLog = <<>>
  /\ fastDeathsCache = <<>>
  /\ sharedBrowser = Null
  /\ browserLaunching = FALSE
  /\ browsers = <<>>
  /\ gb = [p \in Procs |-> "none"]
  /\ req = [r \in Reqs |-> IdleReq]
  /\ QueueIdle

NextQ ==
  \/ \E d \in TickSteps : Tick(d)
  \/ \E b \in DOMAIN browsers : BrowserDies(b)
  \/ Cleanup
  \/ \E r \in Reqs, w \in Worlds, vip \in BOOLEAN : ArriveHitQ(r, w, vip) \/ ArriveMissQ(r, w, vip)
  \/ RateWaitDone \/ QueueDelayDone \/ WorkerLaunchOk \/ WorkerLaunchFail
  \/ WorkerNewPageOk \/ WorkerNewPageFail \/ WorkerGotoOk \/ WorkerGotoFail
  \/ WorkerTableFound \/ WorkerNoContainer \/ WorkerBackoffDone
  \/ WorkerEvaluateFail \/ WorkerPageClosed \/ WorkerPageCloseFail
  \/ \E list \in Lists(MaxRows) : WorkerParse(list)
  \/ \E r \in Reqs, i \in 1..MaxRows :
        \/ CharNewPageOk(r, i) \/ CharNewPageFail(r, i) \/ CharLoadFail(r, i)
        \/ \E c \in CharacterData : CharLoaded(r, i, c)

SpecQ == InitQ /\ [][NextQ]_vars

\* part_004, the request queue on its own: three clients of GET /api/deaths whose
\* requests miss the cache, over an upstream page without rows
Clients == Reqs \cup {"r3"}

InitQueue ==
  /\ now = 1
  /\ ticks = 0
  /\ PeersIdle
  /\ cache = <<>>
  /\ characterCache = <<>>
  /\ requestLog = <<>>
  /\ fastDeathsCache = <<>>
  /\ sharedBrowser = Null
  /\ browserLaunching = FALSE
  /\ browsers = <<>>
  /\ gb = [p \in Procs |-> "none"]
  /\ req = [r \in Clients |-> IdleReq]
  /\ QueueIdle

\* the steps of the processRequestQueue loop and of the fetch it awaits, the browser
\* staying up once launched: timers that fire and puppeteer promises that settle
WorkerStep ==
  \/ RateWaitDone \/ QueueDelayDone \/ WorkerLaunchOk \/ WorkerLaunchFail
  \/ WorkerNewPageOk \/ WorkerGotoOk \/ WorkerGotoFail
  \/ WorkerTableFound \/ WorkerNoContainer \/ WorkerBackoffDone
  \/ WorkerEvaluateFail \/ WorkerPageClosed
  \/ WorkerParse(<<>>)

NextQueue ==
  \/ \E d \in TickSteps : Tick(d)
  \/ \E r \in Clients, w \in Worlds : ArriveHitQ(r, w, FALSE) \/ ArriveMissQ(r, w, FALSE)
  \/ WorkerStep

SpecQueue == InitQueue /\ [][NextQueue]_vars

\* every timer fires and every puppeteer promise settles (launch, goto and
\* waitForSelector carry timeouts); requests may or may not come
LiveQueue == SpecQueue /\ WF_vars(WorkerStep)

\* part_004, the handler of one GET /api/deaths request from the moment its fetch,
\* admitted and taken from the queue, has loaded the page, over every detail-cache
\* content: entries absent, just stored, and stored more than a TTL ago
InitQEnrich ==
  /\ now = CHARACTER_CACHE_DURATION + 2
  /\ ticks = 0
  /\ PeersIdle
  /\ cache = <<>>
  /\ \E age \in [Players -> EntryAges] :
        characterCache = [p \in {q \in Players : age[q] # "absent"} |->
                            [data |-> RealVip,
                             timestamp |-> IF age[p] = "fresh" THEN now ELSE 1]]
  /\ requestLog = <<>>
  /\ fastDeathsCache = <<>>
  /\ sharedBrowser = 1
  /\ browserLaunching = FALSE
  /\ browsers = <<[connected |-> TRUE, pages |-> 1]>>
  /\ gb = [p \in Procs |-> "none"]
  /\ \E vip \in BOOLEAN :
        req = [r \in Reqs |->
                 IF r = "r1"
                 THEN [IdleReq EXCEPT !.kind = "queue", !.pc = "queued", !.vip = vip]
                 ELSE IdleReq]
  /\ calls = <<Call("queue", now, TRUE)>>
  /\ requestQueue = <<>>
  /\ isProcessingQueue = TRUE
  /\ rubinOTRequestLog =
        [ip \in {ServerQueue} |-> [requests |-> <<now>>, lastRequest |-> now]]
  /\ worker = [IdleWorker EXCEPT !.pc = "parse", !.task = "r1", !.browser = 1,
                                 !.budgets = <<[goto |-> gotoTimeout(0),
                                                selector |-> selectorTimeout(0)]>>]

NextQEnrich ==
  \/ \E b \in DOMAIN browsers : BrowserDies(b)
  \/ WorkerEvaluateFail \/ WorkerPageClosed \/ WorkerPageCloseFail \/ QueueDelayDone
  \/ \E list \in Lists(MaxLen) : WorkerParse(list)
  \/ \E r \in Reqs, i \in 1..MaxLen :
        \/ CharNewPageOk(r, i) \/ CharNewPageFail(r, i) \/ CharLoadFail(r, i)
        \/ \E c \in CharacterData : CharLoaded(r, i, c)

SpecQEnrich == InitQEnrich /\ [][NextQEnrich]_vars

\* part_004, the same handler over character pages that may also show none of the
\* labelled rows: page.evaluate then hands back the values its variables start with
Unlabelled == [vocation |-> "Unknown", residence |-> "Unknown",
               accountStatus |-> "Unknown", guild |-> ""]
CharacterOutcomes == CharacterData \cup {Unlabelled}

NextQDetail ==
  \/ \E b \in DOMAIN browsers : BrowserDies(b)
  \/ WorkerEvaluateFail \/ WorkerPageClosed \/ WorkerPageCloseFail \/ QueueDelayDone
  \/ \E list \in Lists(MaxLen) : WorkerParse(list)
  \/ \E r \in Reqs, i \in 1..MaxLen :
        \/ CharNewPageOk(r, i) \/ CharNewPageFail(r, i) \/ CharLoadFail(r, i)
        \/ \E c \in CharacterOutcomes : CharLoaded(r, i, c)

SpecQDetail == InitQEnrich /\ [][NextQDetail]_vars

\* ------------------------------------ part_004: getBrowser() called side by side
\* a caller calls getBrowser(): it gets the connected browser at once, or finds a
\* launch in flight and polls the flag, or starts the launch
CallGetBrowserQ(p) ==
  /\ req[p].pc = "idle"
  /\ LET o == getBrowserQ(browserLaunching)
     IN /\ gb' = [gb EXCEPT ![p] = IF o = "return" THEN "none" ELSE o]
        /\ browserLaunching' = (browserLaunching \/ o = "launch")
        /\ req' = [req EXCEPT ![p] =
               IF o = "return" THEN Resume([@ EXCEPT !.kind = "queue"], sharedBrowser)
               ELSE [@ EXCEPT !.kind = "queue", !.pc = "getBrowser"]]
  /\ UNCHANGED <<calls, queueState, now, ticks, peerState, cache, characterCache, requestLog,
                 fastDeathsCache, sharedBrowser, browsers>>

\* while (browserLaunching) { await 100 ms } found the flag down: return sharedBrowser
WaitOverQ(p) ==
  /\ gb[p] = "wait"
  /\ ~browserLaunching
  /\ gb' = [gb EXCEPT ![p] = "none"]
  /\ req' = [req EXCEPT ![p] = Resume(@, sharedBrowser)]
  /\ UNCHANGED <<calls, queueState, now, ticks, peerState, cache, characterCache, requestLog,
                 fastDeathsCache, sharedBrowser, browserLaunching, browsers>>

\* puppeteer.launch resolved: return sharedBrowser, finally resets the flag
LaunchOkQ(p) ==
  /\ gb[p] = "launch"
  /\ browsers' = Append(browsers, [connected |-> TRUE, pages |-> 0])
  /\ sharedBrowser' = Len(browsers) + 1
  /\ browserLaunching' = FALSE
  /\ gb' = [gb EXCEPT ![p] = "none"]
  /\ req' = [req EXCEPT ![p] = Resume(@, Len(browsers) + 1)]
  /\ UNCHANGED <<calls, queueState, now, ticks, peerState, cache, characterCache, requestLog,
                 fastDeathsCache>>

\* puppeteer.launch rejected: throw error, finally resets the flag
LaunchFailQ(p) ==
  /\ gb[p] = "launch"
  /\ browserLaunching' = FALSE
  /\ gb' = [gb EXCEPT ![p] = "none"]
  /\ req' = [req EXCEPT ![p] = Respond(@, 500, <<>>, FALSE, "getBrowser failed")]
  /\ UNCHANGED <<calls, queueState, now, ticks, peerState, cache, characterCache, requestLog,
                 fastDeathsCache, sharedBrowser, browsers>>

InitBrowserQ ==
  /\ now = 1
  /\ ticks = 0
  /\ PeersIdle
  /\ cache = <<>>
  /\ characterCache = <<>>
  /\ requestLog = <<>>
  /\ fastDeathsCache = <<>>
  /\ sharedBrowser = Null
  /\ browserLaunching = FALSE
  /\ browsers = <<>>
  /\ gb = [p \in Clients |-> "none"]
  /\ req = [r \in Clients |-> IdleReq]
  /\ QueueIdle

NextBrowserQ ==
  \/ \E p \in Clients : CallGetBrowserQ(p) \/ WaitOverQ(p) \/ LaunchOkQ(p) \/ LaunchFailQ(p)
  \/ \E b \in DOMAIN browsers : BrowserDies(b)
  \/ \E d \in TickSteps : Tick(d)

SpecBrowserQ == InitBrowserQ /\ [][NextBrowserQ]_vars

\* ------------------------------------------- server.js: the parse and the top-K
\* const MAX_DEATHS = 10 of page.evaluate
MAX_DEATHS == 10

\* the rows of the upstream page that pass the checks of the loop, players numbered
\* by the row they first appear in: n rows, row j naming the player of row i (i = j:
\* no player twice)
PageRows(n, i, j) == [k \in 1..n |-> Primary(IF k = j THEN i ELSE k, k)]
Pages ==
  {PageRows(n, 1, 1) : n \in 0..MaxPageRows}
    \cup {PageRows(n, ij[1], ij[2]) :
            n \in 1..MaxPageRows,
            ij \in {x \in (1..(PRIORITY_FETCH + 1)) \X (1..(PRIORITY_FETCH + 1)) : x[1] < x[2]}}

\* the loop of page.evaluate: push rows while count < MAX_DEATHS
evaluate(rows) == SubSeq(rows, 1, Min(MAX_DEATHS, Len(rows)))

\* one GET /api/deaths request without filters at page.evaluate, the detail cache cold
InitTopK ==
  /\ now = 1
  /\ ticks = 0
  /\ PeersIdle
  /\ cache = <<>>
  /\ characterCache = <<>>
  /\ requestLog = [ip \in {"ip1"} |-> [requests |-> <<now>>, lastRequest |-> now]]
  /\ fastDeathsCache = <<>>
  /\ sharedBrowser = 1
  /\ browserLaunching = FALSE
  /\ browsers = <<[connected |-> TRUE, pages |-> 1]>>
  /\ gb = [p \in Procs |-> "none"]
  /\ req = [r \in Reqs |->
              IF r = "r1"
              THEN [IdleReq EXCEPT !.pc = "parse", !.rateTouched = TRUE,
                                   !.browser = 1, !.page = "open",
                                   !.budgets = <<[goto |-> gotoTimeout(0),
                                                  selector |-> selectorTimeout(0)]>>]
              ELSE IdleReq]
  /\ QueueIdle

NextTopK ==
  \/ \E b \in DOMAIN browsers : BrowserDies(b)
  \/ \E r \in Reqs :
        \/ EvaluateFail(r) \/ Merge(r) \/ PageClosed(r) \/ PageCloseFail(r)
        \/ \E page \in Pages : Parse(r, evaluate(page))
        \/ \E i \in 1..PRIORITY_FETCH :
              \/ DetailNewPageOk(r, i) \/ DetailNewPageFail(r, i)
              \/ \E c \in DetailOutcomes : DetailDone(r, i, c)

SpecTopK == InitTopK /\ [][NextTopK]_vars

\* ------------------------------------------- the list cache on its own
\* server.js: stores, lookups and sweeps of the list cache at clock distances just
\* inside the TTL, one tick, and the age at which the sweep deletes
CacheWorlds == Worlds \cup {"21"}
CacheSteps == {1, CACHE_DURATION - 1, CACHE_DURATION * SWEEP_AGE_FACTOR}

\* cache.set(cacheKey, {data, timestamp: Date.now()}) at the end of a fetch
CacheStore(world) ==
  /\ Len(calls) < MaxCacheCalls
  /\ cache' = Put(cache, CacheKey(world), [data |-> <<>>, timestamp |-> now])
  /\ calls' = Append(calls, CacheCall("store", CacheKey(world), now, TRUE))
  /\ UNCHANGED <<queueState, directState, now, ticks, peerState, characterCache, sharedBrowser,
                 browserLaunching, browsers, req>>

\* the cache check of the handler: cached && Date.now() - cached.timestamp < CACHE_DURATION
CacheLookup(world) ==
  /\ Len(calls) < MaxCacheCalls
  /\ calls' = Append(calls, CacheCall("lookup", CacheKey(world), now, Fresh(CacheKey(world))))
  /\ UNCHANGED <<queueState, directState, now, ticks, peerState, cache, characterCache, sharedBrowser,
                 browserLaunching, browsers, req>>

CacheSweep ==
  /\ Len(calls) < MaxCacheCalls
  /\ CleanupServer

CacheElapse(d) ==
  /\ ticks < MaxCacheSteps
  /\ UNCHANGED peerState
  /\ ticks' = ticks + 1
  /\ now' = now + d
  /\ UNCHANGED <<calls, queueState, directState, cache, characterCache, sharedBrowser,
                 browserLaunching, browsers, req>>

NextCache ==
  \/ \E w \in CacheWorlds : CacheStore(w) \/ CacheLookup(w)
  \/ CacheSweep
  \/ \E d \in CacheSteps : CacheElapse(d)

SpecCache == Init /\ [][NextCache]_vars

\* ------------------------------------------- the cleanup on detail caches
\* server.js: the cleanup over detail caches of sizes around SWEEP_THRESHOLD, the
\* entries numbered in the order of insertion; their timestamps rise with that order,
\* fall, are all equal, or every other entry was stored again later
EntryCounts == (SWEEP_THRESHOLD - 2)..MaxEntries
StampOrders == {"rising", "falling", "equal", "restored"}
Stamp(order, k, n) ==
  IF order = "rising" THEN k
  ELSE IF order = "falling" THEN n + 1 - k
  ELSE IF order = "equal" THEN 1
  ELSE IF k % 2 = 0 THEN k ELSE n + k

InitSweep ==
  /\ now = 2 * MaxEntries + 2
  /\ ticks = 0
  /\ PeersIdle
  /\ cache = <<>>
  /\ \E n \in EntryCounts, order \in StampOrders :
        characterCache = [k \in 1..n |-> [data |-> RealVip, timestamp |-> Stamp(order, k, n)]]
  /\ requestLog = <<>>
  /\ fastDeathsCache = <<>>
  /\ sharedBrowser = Null
  /\ browserLaunching = FALSE
  /\ browsers = <<>>
  /\ gb = [p \in Procs |-> "none"]
  /\ req = [r \in Reqs |-> IdleReq]
  /\ QueueIdle

NextSweep == CacheSweep

SpecSweep == InitSweep /\ [][NextSweep]_vars

\* ------------------------------------------- the rate limiters on their own
\* the distances between two admission calls: inside the floor, on it, past it
FloorSteps == {1000, 1100, MIN_RUBINOT_INTERVAL}
\* the irregular distances of a long run of calls MIN_RUBINOT_INTERVAL apart: just
\* short of the floor and just past it
OddSteps == {1900, 2100}
\* the distances between two requests of one IP: inside the 500 ms rule and on it
MiddlewareSteps == {400, 500}

\* a run asks one of the two limiters throughout
Driving(by) == IF calls = <<>> THEN TRUE ELSE calls[1].by = by

\* checkRubinOTRateLimit('server-queue') is called d ms after the call before it
AdmissionCall(d) ==
  /\ Driving("queue")
  /\ now' = now + d
  /\ LET check == checkRubinOTRateLimit(rubinOTRequestLog, ServerQueue, now')
     IN /\ rubinOTRequestLog' = check.log
        /\ calls' = Append(calls, Call("queue", now', check.allowed))
  /\ UNCHANGED <<directState, cache, characterCache, sharedBrowser, browserLaunching,
                 browsers, req, requestQueue, isProcessingQueue, worker>>

\* a short run of calls at any of the distances
FloorCall(d) ==
  /\ Len(calls) < MaxFloorCalls
  /\ UNCHANGED peerState
  /\ ticks' = ticks
  /\ AdmissionCall(d)

\* a long run of calls MIN_RUBINOT_INTERVAL apart, a few of them at another distance
WindowCall(d) ==
  /\ Len(calls) < MaxCalls
  /\ UNCHANGED peerState
  /\ IF d = MIN_RUBINOT_INTERVAL THEN ticks' = ticks
     ELSE ticks < MaxOddSteps /\ ticks' = ticks + 1
  /\ AdmissionCall(d)

\* rateLimitMiddleware runs for a request of ip
MiddlewareCall(ip) ==
  /\ Len(calls) < MaxMiddlewareCalls
  /\ Driving("middleware")
  /\ calls' = Append(calls, Call("middleware", now, ~MiddlewareRejects(ip)))
  /\ requestLog' = IF MiddlewareRejects(ip)
                   THEN Put(requestLog, ip, LogEntry(ip))
                   ELSE MiddlewarePass(ip)
  /\ UNCHANGED <<queueState, now, ticks, peerState, cache, characterCache, fastDeathsCache,
                 sharedBrowser, browserLaunching, browsers, gb, req>>

\* d ms pass between two requests of the IP
Elapse(d) ==
  /\ calls # <<>>
  /\ Driving("middleware")
  /\ ticks < MaxMiddlewareCalls
  /\ UNCHANGED peerState
  /\ ticks' = ticks + 1
  /\ now' = now + d
  /\ UNCHANGED <<calls, queueState, directState, cache, characterCache, sharedBrowser,
                 browserLaunching, browsers, req>>

\* both limiters over short runs of calls
NextFloor ==
  \/ \E d \in FloorSteps : FloorCall(d)
  \/ \E ip \in IPs : MiddlewareCall(ip)
  \/ \E d \in MiddlewareSteps : Elapse(d)

SpecFloor == InitQ /\ [][NextFloor]_vars

\* checkRubinOTRateLimit over runs long enough to fill the window
NextWindow == \E d \in OddSteps \cup {MIN_RUBINOT_INTERVAL} : WindowCall(d)

SpecWindow == InitQ /\ [][NextWindow]_vars

\* ------------------------------------------- the rate records on their own
\* the addresses of a run of the records of server.js, and the time that passes
\* between two writes: the interval of part_004's cleanup and the rate window
RecordIPs == {"ip1", "ip2"}
RecordSteps == {30000, RATE_LIMIT_WINDOW}

\* processRequestQueue asks checkRubinOTRateLimit('server-queue') now
RecordAdmission ==
  /\ Len(calls) < MaxRecordCalls
  /\ LET check == checkRubinOTRateLimit(rubinOTRequestLog, ServerQueue, now)
     IN /\ rubinOTRequestLog' = check.log
        /\ calls' = Append(calls, Call("queue", now, check.allowed))
  /\ UNCHANGED <<directState, now, ticks, peerState, cache, characterCache, sharedBrowser,
                 browserLaunching, browsers, req, requestQueue, isProcessingQueue, worker>>

\* server.js: a request of ip passes the middleware, misses the cache and is logged
RecordLog(ip) ==
  /\ Len(calls) < MaxRecordCalls
  /\ ~MiddlewareRejects(ip)
  /\ requestLog' = logRateLimitRequest(MiddlewarePass(ip), ip)
  /\ calls' = Append(calls, Call("log", now, TRUE))
  /\ UNCHANGED <<queueState, now, ticks, peerState, cache, characterCache, fastDeathsCache,
                 sharedBrowser, browserLaunching, browsers, gb, req>>

\* the setInterval callback of server.js
RecordSweep == Len(calls) < MaxRecordCalls /\ CleanupServer

RecordElapse(d) ==
  /\ ticks < MaxRecordSteps
  /\ UNCHANGED peerState
  /\ ticks' = ticks + 1
  /\ now' = now + d
  /\ UNCHANGED <<calls, queueState, directState, cache, characterCache, sharedBrowser,
                 browserLaunching, browsers, req>>

NextRecord ==
  \/ RecordAdmission
  \/ Cleanup
  \/ \E ip \in RecordIPs : RecordLog(ip)
  \/ RecordSweep
  \/ \E d \in RecordSteps : RecordElapse(d)

SpecRecord == InitQ /\ [][NextRecord]_vars

\* ------------------------------------ server.js: one address polling /api/deaths
\* a request of ip1 arrives d ms after the one before it, for a world whose list is
\* not fresh in the cache: rateLimitMiddleware decides, and a request let through is
\* logged by the handler and fetched upstream
CeilingCall(d) ==
  /\ Len(calls) < MaxCeilingCalls
  /\ UNCHANGED peerState
  /\ IF d = MIN_REQUEST_INTERVAL THEN ticks' = ticks
     ELSE ticks < MaxOddSteps /\ ticks' = ticks + 1
  /\ now' = now + d
  /\ LET last == LogEntry("ip1").lastRequest
         rejects == last > 0 /\ now' - last < SPAM_INTERVAL
         passed == Put(requestLog, "ip1", [LogEntry("ip1") EXCEPT !.lastRequest = now'])
         InWindow(t) == now' - t < RATE_LIMIT_WINDOW
     IN /\ calls' = Append(calls, Call("middleware", now', ~rejects))
        /\ requestLog' =
             IF rejects THEN Put(requestLog, "ip1", LogEntry("ip1"))
             ELSE [passed EXCEPT !["ip1"].requests =
                     Append(SelectSeq(passed["ip1"].requests, InWindow), now')]
  /\ UNCHANGED <<queueState, cache, characterCache, fastDeathsCache, sharedBrowser,
                 browserLaunching, browsers, gb, req>>

\* the distances between two requests: the declared minimum, the literal of the
\* middleware, and one inside it
CeilingSteps == {MIN_REQUEST_INTERVAL, SPAM_INTERVAL, 400}

NextCeiling == \E d \in CeilingSteps : CeilingCall(d)

SpecCeiling == InitQ /\ [][NextCeiling]_vars

\* ------------------------------------------- the retry loops on their own
\* const waitTime = retryCount * 1000 (server.js), taken after retryCount++
waitTime_Flat(retryCount) == 1000
waitTime(retryCount) == retryCount * 1000
\* const waitTime = Math.min(1000 * retryCount, 3000) (part_004)
waitTimeQ(retryCount) == Min(1000 * retryCount, 3000)

\* one wait of a retry loop: whose loop, when the timer was set, for how long
Wait(by, t, w) == [by |-> by, t |-> t, wait |-> w]
\* how long an attempt may take, and how late a timer may fire
AttemptTimes == {100, 8000}
TimerLateness == {0, 7}

\* the loop of request r1 of server.js, or the loop of the fetch of part_004's
\* worker, inside the try block of its first attempt
InitBackoff ==
  /\ now = 1
  /\ ticks = 0
  /\ PeersIdle
  /\ cache = <<>>
  /\ characterCache = <<>>
  /\ requestLog = <<>>
  /\ fastDeathsCache = <<>>
  /\ sharedBrowser = Null
  /\ browserLaunching = FALSE
  /\ browsers = <<>>
  /\ gb = [p \in Procs |-> "none"]
  /\ calls = <<>>
  /\ requestQueue = <<>>
  /\ rubinOTRequestLog = <<>>
  /\ \/ /\ req = [r \in Reqs |-> IF r = "r1" THEN [IdleReq EXCEPT !.pc = "attempt"]
                                  ELSE IdleReq]
        /\ isProcessingQueue = FALSE
        /\ worker = IdleWorker
     \/ /\ req = [r \in Reqs |-> IdleReq]
        /\ isProcessingQueue = TRUE
        /\ worker = [IdleWorker EXCEPT !.pc = "attempt", !.task = "r1"]

\* time passes while an attempt runs
AttemptTakes(d) ==
  /\ ticks < MaxAttemptSteps
  /\ req["r1"].pc = "attempt" \/ worker.pc = "attempt"
  /\ UNCHANGED peerState
  /\ ticks' = ticks + 1
  /\ now' = now + d
  /\ UNCHANGED <<calls, queueState, directState, cache, characterCache, sharedBrowser,
                 browserLaunching, browsers, req>>

\* server.js, catch (attemptError): retryCount++, then the stale entry or the throw
\* when the retries are exhausted, else the wait
RetryFails(r) ==
  /\ req[r].pc = "attempt"
  /\ LET n == req[r].retryCount + 1
     IN IF MaxRetriesExceeded(n)
        THEN /\ req' = [req EXCEPT ![r].pc = "failed", ![r].retryCount = n]
             /\ calls' = calls
        ELSE /\ req' = [req EXCEPT ![r].pc = "backoff", ![r].retryCount = n]
             /\ calls' = Append(calls, Wait("server", now, waitTime(n)))
  /\ UNCHANGED <<queueState, directState, now, ticks, peerState, cache, characterCache, sharedBrowser,
                 browserLaunching, browsers>>

\* the attempt found the table: break
RetrySucceeds(r) ==
  /\ req[r].pc = "attempt"
  /\ req' = [req EXCEPT ![r].pc = "parse"]
  /\ UNCHANGED <<calls, queueState, directState, now, ticks, peerState, cache, characterCache,
                 sharedBrowser, browserLaunching, browsers>>

\* the waits of the loop `by` so far
Waits(by) == LET Mine(c) == c.by = by IN SelectSeq(calls, Mine)

\* setTimeout(resolve, waitTime) fires, `late` ms after it is due
RetryTimer(r, late) ==
  /\ req[r].pc = "backoff"
  /\ LET w == Waits("server")[Len(Waits("server"))]
     IN now' = Fired(w.t + w.wait) + late
  /\ req' = [req EXCEPT ![r].pc = "attempt"]
  /\ UNCHANGED <<calls, queueState, directState, ticks, peerState, cache, characterCache,
                 sharedBrowser, browserLaunching, browsers>>

\* part_004, catch (error): retryCount++, throw when the retries are exhausted, else wait
WorkerRetryFails ==
  /\ worker.pc = "attempt"
  /\ LET n == worker.retryCount + 1
     IN IF n > MAX_RETRIES
        THEN /\ worker' = [worker EXCEPT !.pc = "failed", !.retryCount = n]
             /\ calls' = calls
        ELSE /\ worker' = [worker EXCEPT !.pc = "backoff", !.retryCount = n,
                                         !.wake = now + waitTimeQ(n)]
             /\ calls' = Append(calls, Wait("queue", now, waitTimeQ(n)))
  /\ UNCHANGED <<directState, now, ticks, peerState, cache, characterCache, sharedBrowser,
                 browserLaunching, browsers, req, requestQueue, isProcessingQueue,
                 rubinOTRequestLog>>

WorkerRetrySucceeds ==
  /\ worker.pc = "attempt"
  /\ worker' = [worker EXCEPT !.pc = "parse"]
  /\ UNCHANGED <<calls, directState, now, ticks, peerState, cache, characterCache, sharedBrowser,
                 browserLaunching, browsers, req, requestQueue, isProcessingQueue,
                 rubinOTRequestLog>>

WorkerRetryTimer(late) ==
  /\ worker.pc = "backoff"
  /\ now' = Fired(worker.wake) + late
  /\ worker' = [worker EXCEPT !.pc = "attempt"]
  /\ UNCHANGED <<calls, directState, ticks, peerState, cache, characterCache, sharedBrowser,
                 browserLaunching, browsers, req, requestQueue, isProcessingQueue,
                 rubinOTRequestLog>>

NextBackoff ==
  \/ \E d \in AttemptTimes : AttemptTakes(d)
  \/ RetryFails("r1") \/ RetrySucceeds("r1")
  \/ \E late \in TimerLateness : RetryTimer("r1", late)
  \/ WorkerRetryFails \/ WorkerRetrySucceeds
  \/ \E late \in TimerLateness : WorkerRetryTimer(late)

SpecBackoff == InitBackoff /\ [][NextBackoff]_vars

\* ------------------------------------------------------------ properties
\* the primary list of request r is being rendered and fetched upstream
InPrimaryFetch(r) ==
  req[r].kind = "deaths" /\ req[r].pc \in {"goto", "waitForSelector", "parse"}

\* C1: single flight per cache key: at no time are two requests for the same
\* list-cache key both inside the upstream render-and-fetch of the primary list
C1_SingleFlightPerKey ==
  \A r1, r2 \in Reqs :
    (r1 # r2 /\ InPrimaryFetch(r1) /\ InPrimaryFetch(r2))
      => CacheKey(req[r1].world) # CacheKey(req[r2].world)

\* C2: cache bypass on hit: a request that arrives while the list cache holds a fresh
\* entry for its key is never answered 429 and leaves every rate record as it was
C2_CacheBypassOnHit ==
  \A r \in Reqs :
    (req[r].kind = "deaths" /\ req[r].freshAtArrival)
      => (req[r].resp.status # 429 /\ ~req[r].rateTouched)

\* C3: failure propagation: a request that found a cache entry (fresh or expired) for
\* its key when it started is never answered with an error, whatever stage of the
\* upstream path failed
C3_FailureFallsBackToCache ==
  \A r \in Reqs :
    (req[r].kind = "deaths" /\ req[r].pc = "done" /\ req[r].hadCached)
      => req[r].resp.status # 500

\* C4: stale fallback: a response that falls back to the expired cache entry after the
\* retries are exhausted is a success and carries a staleness marker
C4_StaleFallbackIsMarked ==
  \A r \in Reqs :
    (req[r].pc = "done" /\ req[r].resp.how = "stale")
      => (req[r].resp.status = 200 /\ req[r].resp.staleMarker)

\* the attempts of request r that got as far as being given a timeout budget
Budgeted(r) == {i \in DOMAIN req[r].budgets : req[r].budgets[i].goto # 0}

\* C5, as stated: every attempt of the retry loop has a strictly larger navigation and
\* selector timeout than the attempt before it
C5_StrictlyLargerBudgets ==
  \A r \in Reqs : \A i, j \in Budgeted(r) :
    i < j => /\ req[r].budgets[i].goto < req[r].budgets[j].goto
             /\ req[r].budgets[i].selector < req[r].budgets[j].selector

\* C5, amended: the loop makes at most MAX_RETRIES+1 attempts, leaves with success
\* on attempt N after exactly N-1 failed attempts, and the timeout budgets never
\* shrink: they grow strictly over attempts 1 to 3 and attempt 4 repeats attempt 3's
C5_RetryEscalation ==
  \A r \in Reqs :
    /\ Len(req[r].budgets) <= MAX_RETRIES + 1
    /\ req[r].retryCount <= MAX_RETRIES
    /\ req[r].pc \in {"goto", "waitForSelector", "parse"}
         => Len(req[r].budgets) = req[r].retryCount + 1
    /\ \A i, j \in Budgeted(r) :
         i < j => /\ req[r].budgets[i].goto <= req[r].budgets[j].goto
                  /\ req[r].budgets[i].selector <= req[r].budgets[j].selector
                  /\ j <= 3 => /\ req[r].budgets[i].goto < req[r].budgets[j].goto
                               /\ req[r].budgets[i].selector < req[r].budgets[j].selector
                  /\ i >= 3 => req[r].budgets[i] = req[r].budgets[j]

\* C5 witness: a request leaves the retry loop with success on its fourth attempt,
\* every attempt having been given its budget
C5_SuccessOnLastAttempt ==
  \E r \in Reqs :
    /\ req[r].pc = "parse"
    /\ req[r].retryCount = MAX_RETRIES
    /\ Cardinality(Budgeted(r)) = MAX_RETRIES + 1

\* C6: order preservation: the enriched list of a fresh response holds the parsed
\* records, each once, in the positions they had in the parsed list
C6_OrderPreserved ==
  \A r \in Reqs :
    (req[r].pc = "done" /\ req[r].resp.how = "fresh" /\ ~req[r].vip)
      => Map(req[r].resp.body, Strip) = req[r].deaths

\* C7: per-entity detail failure isolation: no failure inside one record's detail
\* fetch makes the request fail
C7_DetailFailureIsolated ==
  \A r \in Reqs : \A i \in DOMAIN req[r].tasks :
    req[r].tasks[i].st = "rejected" => req[r].resp.status # 500

\* no handler and no detail fetch is running
Quiescent ==
  \A r \in Reqs :
    /\ req[r].pc \in {"idle", "done"}
    /\ \A i \in DOMAIN req[r].tasks : req[r].tasks[i].st \in {"done", "rejected"}

\* C8: sub-resource release: once every handler has answered and every detail fetch
\* has ended, no page is left open in any live browser
C8_NoPageLeftOpen ==
  Quiescent => \A b \in DOMAIN browsers : browsers[b].pages = 0

\* C9: browser singleton: at most one puppeteer.launch is in flight, at most one
\* launched browser is connected, and the launch flag is set exactly while a launch
\* is in flight
C9_BrowserSingleton ==
  /\ Cardinality({p \in Procs : gb[p] = "launch"}) <= 1
  /\ Cardinality({b \in DOMAIN browsers : browsers[b].connected}) <= 1
  /\ browserLaunching <=> \E p \in Procs : gb[p] = "launch"

\* C9 witness: the browser died, one caller is relaunching it and another caller, who
\* arrived during that launch, waits
C9_CallerWaitsForRelaunch ==
  /\ Len(browsers) >= 1
  /\ \E p, q \in Reqs : gb[p] = "launch" /\ gb[q] = "wait"

\* C10: resource recreation on death: a retry attempt that starts after an attempt
\* found the browser disconnected does not run on that dead handle
C10_RecreatedBeforeRetry ==
  \A r \in Reqs :
    (req[r].pc = "newPage" /\ req[r].deadSeen # Null)
      => req[r].browser # req[r].deadSeen

\* ------------------------------------- properties of src/unnamed/part_004
\* the queue processor is the only caller of getBrowser() that can find the browser
\* gone, so it never finds a launch of somebody else in flight
QueueNeverWaitsForLaunch == worker.pc # "wait"

\* part_004: the launch flag is set exactly while the queue processor's launch is in
\* flight, at most one launched browser is connected, and a connected handle in use
\* is the shared one
QueueBrowserSingleton ==
  /\ browserLaunching <=> worker.pc = "launch"
  /\ Cardinality({b \in DOMAIN browsers : browsers[b].connected}) <= 1
  /\ Connected(worker.browser) => sharedBrowser = worker.browser
  /\ \A r \in Reqs : Connected(req[r].browser) => sharedBrowser = req[r].browser

\* part_004: the attempts of fetchDeathsFromRubinOT that were given a timeout budget
WorkerBudgeted == {i \in DOMAIN worker.budgets : worker.budgets[i].goto # 0}

\* part_004: at most MAX_RETRIES+1 attempts, success on attempt N after exactly N-1
\* failures, budgets growing strictly over attempts 1 to 3 and equal on 3 and 4
QueueRetryEscalation ==
  /\ Len(worker.budgets) <= MAX_RETRIES + 1
  /\ worker.retryCount <= MAX_RETRIES
  /\ worker.pc \in {"goto", "waitForSelector", "parse"}
       => Len(worker.budgets) = worker.retryCount + 1
  /\ \A i, j \in WorkerBudgeted :
       i < j => /\ j <= 3 => /\ worker.budgets[i].goto < worker.budgets[j].goto
                             /\ worker.budgets[i].selector < worker.budgets[j].selector
                /\ i >= 3 => worker.budgets[i] = worker.budgets[j]

\* part_004: every attempt has a strictly larger budget than the one before it
QueueStrictlyLargerBudgets ==
  \A i, j \in WorkerBudgeted :
    i < j => worker.budgets[i].goto < worker.budgets[j].goto

\* part_004: the fourth attempt succeeded
QueueSuccessOnLastAttempt ==
  worker.pc = "parse" /\ worker.retryCount = MAX_RETRIES
    /\ Cardinality(WorkerBudgeted) = MAX_RETRIES + 1

\* part_004: a request that had a cache entry when it started is never answered 500
QueueFailureFallsBackToCache ==
  \A r \in Reqs : (req[r].pc = "done" /\ req[r].hadCached) => req[r].resp.status # 500

\* part_004: a stale answer is a success and carries X-Stale-Cache
QueueStaleFallbackIsMarked ==
  \A r \in Reqs :
    (req[r].pc = "done" /\ req[r].resp.how = "stale")
      => (req[r].resp.status = 200 /\ req[r].resp.staleMarker)

\* part_004: a stale answer has been given
QueueStaleAnswered == \E r \in Reqs : req[r].pc = "done" /\ req[r].resp.how = "stale"

\* part_004: a request answered from a fresh entry leaves the rate records alone
\* (the rate limiter runs in the queue processor only)
QueueHitAnswered == \E r \in Reqs : req[r].pc = "done" /\ req[r].resp.how = "hit"

\* part_004: no handler, no detail fetch and no queue pass is running
QueueQuiescent ==
  /\ worker.pc = "idle"
  /\ \A r \in Reqs :
       /\ req[r].pc \in {"idle", "done"}
       /\ \A i \in DOMAIN req[r].tasks : req[r].tasks[i].st = "done"

\* part_004: no page is left open once everything has ended
QueueNoPageLeftOpen ==
  QueueQuiescent => \A b \in DOMAIN browsers : browsers[b].pages = 0

\* part_004: a retry attempt does not start on the handle the attempt before it
\* found disconnected
QueueRecreatedBeforeRetry ==
  (worker.pc = "newPage" /\ worker.deadSeen # Null) => worker.browser # worker.deadSeen

\* part_004: a detail fetch that ended without data left its request unanswered by 500
QueueDetailFailureIsolated ==
  \A r \in Reqs :
    (\E i \in DOMAIN req[r].tasks : req[r].tasks[i].st = "done" /\ req[r].tasks[i].result = <<>>)
      => req[r].resp.status # 500

\* part_004: a detail fetch failed and its request was answered all the same
QueueDetailFailedAnswered ==
  \E r \in Reqs :
    /\ req[r].pc = "done" /\ req[r].resp.how = "fresh"
    /\ \E i \in DOMAIN req[r].tasks : req[r].tasks[i].result = <<>>

\* ------------------------------------------------- properties: admission
\* the admitted calls before call n, and the floor of the limiter that was asked
PriorAdmitted(n) == {i \in 1..(n - 1) : calls[i].allowed}
FloorOf(by) == IF by = "queue" THEN MIN_RUBINOT_INTERVAL ELSE SPAM_INTERVAL
\* call n comes less than the floor after an admitted call
TooSoon(n) == \E i \in PriorAdmitted(n) : calls[n].t - calls[i].t < FloorOf(calls[n].by)
\* the admitted calls within the trailing rate window of call n
AdmittedInWindow(n) ==
  {i \in PriorAdmitted(n) : calls[n].t - calls[i].t < RATE_LIMIT_WINDOW}
WindowFull(n) ==
  calls[n].by = "queue" /\ Cardinality(AdmittedInWindow(n)) >= MAX_RUBINOT_FETCHES_PER_MINUTE

AdmittedUpTo(n) ==
  {i \in 1..n : calls[i].allowed /\ calls[n].t - calls[i].t < RATE_LIMIT_WINDOW}
\* call n is the first admission call after an admission that filled the window
AfterFilledWindow(n) ==
  /\ n > 1 /\ calls[n].by = "queue" /\ calls[n - 1].allowed
  /\ Cardinality(AdmittedUpTo(n - 1)) >= MAX_RUBINOT_FETCHES_PER_MINUTE

\* the call made last; calls only grows, so every call is the latest call of the
\* state its verdict was recorded in
Latest == Len(calls)

\* C12: window ceiling: an admission call that finds MAX_RUBINOT_FETCHES_PER_MINUTE
\* admitted calls in its trailing window is denied; the call after an admission that
\* filled the window is admitted once the oldest admission has left the window and
\* the minimum interval has passed; the admitted calls in the trailing window of any
\* call never number more than MAX_RUBINOT_FETCHES_PER_MINUTE
C12_WindowCeiling ==
  calls # <<>> =>
    /\ WindowFull(Latest) => ~calls[Latest].allowed
    /\ AfterFilledWindow(Latest)
         => (calls[Latest].allowed <=> (~WindowFull(Latest) /\ ~TooSoon(Latest)))
    /\ Cardinality(AdmittedUpTo(Latest)) <= MAX_RUBINOT_FETCHES_PER_MINUTE

\* C12 witness: the window was filled, the next call came inside it and was denied,
\* and the call after that, the oldest admission having left the window, was admitted
C12_DeniedThenAdmittedAgain ==
  /\ Latest > 2
  /\ AfterFilledWindow(Latest - 1) /\ WindowFull(Latest - 1) /\ ~calls[Latest - 1].allowed
  /\ ~WindowFull(Latest) /\ calls[Latest].allowed

\* C12 as stated: the call after an admission that filled the window is admitted as
\* soon as the oldest admission has left the window
C12_AdmittedOnceOldestAgedOut ==
  (calls # <<>> /\ AfterFilledWindow(Latest) /\ ~WindowFull(Latest))
    => calls[Latest].allowed

\* ------------------------------------------------- properties: request queue
\* the tasks waiting in the queue q
Waiting(q) == {q[i] : i \in DOMAIN q}
\* the promise queueRubinOTRequest returned to r is pending
Pending(r) == req[r].kind = "queue" /\ req[r].pc = "queued"
\* the catch block of the handler answered r: its promise was rejected
WasRejected(r) ==
  req[r].kind = "queue" /\ req[r].pc = "done" /\ req[r].resp.how \in {"stale", "fetch failed"}
\* the handler answered r with the rows of its own fetch: its promise was resolved
WasResolved(r) == req[r].kind = "queue" /\ req[r].pc = "done" /\ req[r].resp.how = "fresh"
\* a task leaves the queue only into fetchDeathsFromRubinOT, after an admitted check
TakenOnlyToExecute ==
  \A r \in Clients :
    (r \in Waiting(requestQueue) /\ r \notin Waiting(requestQueue'))
      => /\ worker'.task = r
         /\ Len(calls') = Len(calls) + 1
         /\ calls'[Len(calls')].allowed
\* a promise is settled only by the loop's resolve or reject for the task it executes
SettledOnlyByExecution ==
  \A r \in Clients : (Pending(r) /\ ~Pending(r)') => worker.task = r

\* C13: queue liveness: every task pushed by queueRubinOTRequest is eventually taken
\* into fetchDeathsFromRubinOT and its promise settled, resolved or rejected; a task
\* leaves the queue only by being taken for execution after an admitted check, and
\* its promise is settled only by the loop that executes it
C13_QueueLiveness ==
  /\ [][TakenOnlyToExecute /\ SettledOnlyByExecution]_vars
  /\ \A r \in Clients : Pending(r) ~> ~Pending(r)

\* C13 witness: three tasks went through the queue, one of them was denied at its
\* first check, one was resolved and one was rejected, and none is pending
C13_AllSettledAfterDenial ==
  /\ \A r \in Clients : WasRejected(r) \/ WasResolved(r)
  /\ \E r \in Clients : WasRejected(r)
  /\ \E r \in Clients : WasResolved(r)
  /\ \E n \in DOMAIN calls : ~calls[n].allowed
  /\ requestQueue = <<>> /\ ~isProcessingQueue

\* C13 as stated: the queue only shrinks by successful execution: no task that left
\* the queue has its promise rejected
C13_ShrinksOnlyBySuccess == \A r \in Clients : ~WasRejected(r)

\* the tasks whose fetchDeathsFromRubinOT is executing: out of the queue, not settled
Executing == {r \in Clients : Pending(r) /\ r \notin Waiting(requestQueue)}

\* C14: serial drain: at most one fetchDeathsFromRubinOT started by the queue is
\* executing at any time, however many requests have pushed a task and called
\* processRequestQueue
C14_SerialDrain == Cardinality(Executing) <= 1

\* C14 witness: one task is in its fetch while the two other clients, each of which
\* called processRequestQueue, wait in the queue
C14_OneFetchTwoWaiting ==
  /\ Cardinality(Executing) = 1
  /\ Len(requestQueue) = 2
  /\ worker.pc = "goto"

\* processRequestQueue dequeued a task and checkRubinOTRateLimit denied it
DeniedStep == Len(calls') = Len(calls) + 1 /\ ~calls'[Len(calls')].allowed
\* the queue the loop found: the tasks waiting, or the one task just pushed
QueueFound == IF requestQueue = <<>> THEN requestQueue' ELSE requestQueue
\* a denied task goes back where it was taken from, the head, and the loop sleeps
\* MIN_RUBINOT_INTERVAL before it takes the head again
QueueDeniedKeptAtHead ==
  [][DeniedStep => /\ requestQueue' = QueueFound
                   /\ worker'.pc = "rateWait"
                   /\ worker'.wake = now' + MIN_RUBINOT_INTERVAL]_vars

\* C15: denied task re-enqueue: a dequeued task that checkRubinOTRateLimit denies is
\* put back at the tail of the queue, behind every task that waits, it is not
\* dropped, and the loop waits before it takes the new head
C15_DeniedGoesToTail ==
  [][DeniedStep => /\ requestQueue' = Append(Tail(QueueFound), Head(QueueFound))
                   /\ worker'.pc = "rateWait"]_vars

\* ------------------------------------------------- properties: caches
\* the stores of the key of call n made before it
StoresBefore(n) ==
  {i \in 1..(n - 1) : calls[i].by = "store" /\ calls[i].key = calls[n].key}
\* a sweep ran between call i and call n
SweptBetween(i, n) == \E j \in (i + 1)..(n - 1) : calls[j].by = "sweep"

\* C16: cache freshness: a lookup of a list-cache key is a hit iff the key was stored
\* less than CACHE_DURATION before it; a lookup exactly CACHE_DURATION after the last
\* store is a miss; sweeps in between change nothing of this
C16_CacheFreshness ==
  \A n \in DOMAIN calls :
    calls[n].by = "lookup" =>
      (calls[n].allowed <=>
         \E i \in StoresBefore(n) : calls[n].t - calls[i].t < CACHE_DURATION)

\* C16 witness: a key was stored, a sweep ran, the lookup just inside the TTL hit
\* and the lookup exactly CACHE_DURATION after the store missed
C16_HitThenBoundaryMiss ==
  \E i, m, n \in DOMAIN calls :
    /\ calls[i].by = "store" /\ calls[m].by = "lookup" /\ calls[n].by = "lookup"
    /\ calls[m].key = calls[i].key /\ calls[n].key = calls[i].key
    /\ i < m /\ m < n /\ SweptBetween(i, m)
    /\ calls[m].t = calls[i].t + CACHE_DURATION - 1 /\ calls[m].allowed
    /\ calls[n].t = calls[i].t + CACHE_DURATION /\ ~calls[n].allowed

\* r was answered from the list cache, p by the fetch that filled it
ServedFromCache(r) == req[r].kind = "queue" /\ req[r].pc = "done" /\ req[r].resp.how = "hit"
FilledCache(p) == req[p].kind = "queue" /\ req[p].pc = "done" /\ req[p].resp.how = "fresh"
\* the rows the fetch of p produced, details merged, before any filter
FetchedBy(p) == mergeQ(req[p].deaths, req[p].tasks, characterCache)

\* C17: cache key covers the query: a request answered from the list cache receives
\* what its own world and filter select from the rows of the fetch that filled the
\* entry; a request without the VIP filter receives every row and never a
\* VIP-filtered list
C17_CacheKeyCoversQuery ==
  \A r, p \in Reqs :
    (ServedFromCache(r) /\ FilledCache(p) /\ req[r].world = req[p].world)
      => req[r].resp.body = VipFilter(req[r].vip, FetchedBy(p))

\* the four detail fields of a record
DetailsOf(e) == [vocation |-> e.vocation, residence |-> e.residence,
                 accountStatus |-> e.accountStatus, guild |-> e.guild]
\* every record of the list carries fetched details or the sentinel defaults
DetailsSettled(list) ==
  \A i \in DOMAIN list : DetailsOf(list[i]) \in CharacterData \cup DetailOutcomes

\* C18: sentinel defaults: every record of a list that /api/deaths returned or stored
\* in the list cache carries, in its four detail fields, fetched values or the
\* sentinel defaults, never the placeholders of the parse
C18_SentinelDefaults ==
  /\ \A r \in DOMAIN req :
        (req[r].pc = "done" /\ req[r].resp.status = 200) => DetailsSettled(req[r].resp.body)
  /\ \A k \in DOMAIN cache : DetailsSettled(cache[k].data)

\* the detail-cache entry of player p is older than CHARACTER_CACHE_DURATION
Expired(p) ==
  p \in DOMAIN characterCache /\ now - characterCache[p].timestamp > CHARACTER_CACHE_DURATION
\* the handler of r has partitioned the rows of its fetch
Partitioned(r) ==
  /\ req[r].kind = "queue"
  /\ req[r].pc = "detail" \/ (req[r].pc = "done" /\ req[r].resp.how = "fresh")
\* the players the handler of r started fetchCharacterData for
NeedsFetch(r) == {req[r].tasks[i].death.player : i \in DOMAIN req[r].tasks}

\* C19: detail-cache expiry: a row whose player has a detail-cache entry older than
\* CHARACTER_CACHE_DURATION is put in the needs-fetch partition, and the entry is not
\* merged into the response
C19_ExpiredEntryIsAbsent ==
  \A r \in Reqs :
    Partitioned(r) =>
      /\ \A i \in DOMAIN req[r].deaths :
            Expired(req[r].deaths[i].player) => req[r].deaths[i].player \in NeedsFetch(r)
      /\ req[r].pc = "done" =>
            \A i \in DOMAIN req[r].resp.body :
              Expired(req[r].resp.body[i].player)
                => DetailsOf(req[r].resp.body[i]) # characterCache[req[r].resp.body[i].player].data

\* the cleanup has run in this step
SweepStep == Len(calls') = Len(calls) + 1 /\ calls'[Len(calls')].by = "sweep"
\* the entries the step deleted from the detail cache
Evicted == DOMAIN characterCache \ DOMAIN characterCache'
\* no deleted entry is younger than an entry that was kept
EvictedAreOldest ==
  \A e \in Evicted, k \in DOMAIN characterCache' :
    characterCache[e].timestamp <= characterCache[k].timestamp
SweepEvictsOldest == [][SweepStep => EvictedAreOldest]_vars

\* C20: bounded detail cache: after every run of the cleanup the detail cache holds
\* at most SWEEP_THRESHOLD entries, and the entries it deleted are the oldest: none
\* of them has a later timestamp than an entry that was kept
C20_BoundedDetailCache ==
  [][SweepStep => /\ Cardinality(DOMAIN characterCache') <= SWEEP_THRESHOLD
                  /\ EvictedAreOldest]_vars

\* ------------------------------------------------- properties: top-K enrichment
\* the handler of r answered with the list of its own fetch
AnsweredFresh(r) == req[r].pc = "done" /\ req[r].resp.status = 200 /\ req[r].resp.how = "fresh"
\* the rows r handed to a detail fetch
DetailFetched(r) == [i \in DOMAIN req[r].tasks |-> req[r].tasks[i].death]
\* the first PRIORITY_FETCH rows of a list
FirstRows(list) == SubSeq(list, 1, Min(PRIORITY_FETCH, Len(list)))
\* the list answered to r was stored, holds every parsed row in the order of the
\* parse, and its rows past the first PRIORITY_FETCH carry the sentinel details
TopKAnswer(r) ==
  LET body == req[r].resp.body
  IN /\ cache[CacheKey(req[r].world)].data = body
     /\ Len(body) = Len(req[r].deaths)
     /\ \A i \in DOMAIN body :
           /\ Strip(body[i]) = req[r].deaths[i]
           /\ i > PRIORITY_FETCH => DetailsOf(body[i]) = Sentinel
\* no player of the parsed list appears twice
DistinctPlayers(r) ==
  \A i, j \in DOMAIN req[r].deaths :
    req[r].deaths[i].player = req[r].deaths[j].player => i = j

\* C21: top-K enrichment: with a cold detail cache exactly the first PRIORITY_FETCH
\* parsed rows are detail-fetched, the rows after them carry the sentinel details,
\* and every parsed row is cached and returned in the order of the parse; no request
\* issues more than PRIORITY_FETCH detail fetches or returns more than MAX_DEATHS rows
C21_TopKEnrichment ==
  \A r \in Reqs :
    /\ Len(req[r].tasks) <= PRIORITY_FETCH
    /\ Len(req[r].deaths) <= MAX_DEATHS
    /\ req[r].pc \in {"detail", "closing"} /\ req[r].deaths # <<>>
         => DetailFetched(r) = FirstRows(req[r].deaths)
    /\ AnsweredFresh(r) => (Len(req[r].resp.body) <= MAX_DEATHS /\ TopKAnswer(r))

\* what holds: the same, for parsed lists that name no player twice
TopKOfDistinctPlayers ==
  \A r \in Reqs :
    /\ Len(req[r].tasks) <= PRIORITY_FETCH
    /\ Len(req[r].deaths) <= MAX_DEATHS
    /\ req[r].pc \in {"detail", "closing"} /\ req[r].deaths # <<>>
         => DetailFetched(r) = FirstRows(req[r].deaths)
    /\ (AnsweredFresh(r) /\ DistinctPlayers(r))
         => (Len(req[r].resp.body) <= MAX_DEATHS /\ TopKAnswer(r))
\* ten rows of ten players were parsed and answered
TenRowsAnswered ==
  \E r \in Reqs : AnsweredFresh(r) /\ DistinctPlayers(r) /\ Len(req[r].resp.body) = MAX_DEATHS


\* ------------------------------------------ properties: transient overload
\* C22: transient-overload response: a request is answered 429 only when the rate
\* limiter denied it and the list cache held no entry, fresh or expired, for its
\* key; a denied request whose key has an entry is served that entry
C22_OverloadResponse ==
  \A r \in Reqs :
    (req[r].kind = "deaths" /\ req[r].pc = "done" /\ req[r].resp.status = 429)
      => (req[r].resp.how = "denied" /\ ~req[r].hadCached)

\* a 429 is only ever the answer of the rate limiter
OverloadOnlyOnDenial ==
  \A r \in Reqs :
    (req[r].pc = "done" /\ req[r].resp.status = 429) => req[r].resp.how = "denied"


\* --------------------------------------- properties: per-identity admission
\* req._rateLimitIP of the request of client r: every client calls from an address
\* of its own
rateLimitIP(r) == <<"ip", r>>
\* the queue admitted the fetch of r: its task left the queue
Admitted(r) == req[r].kind = "queue" /\ r \notin Waiting(requestQueue)
\* the check of the loop denied the fetch of the task now back at the head
DeniedNow == worker.pc = "rateWait" /\ requestQueue # <<>>

\* C23: per-identity admission: the fetch of a caller is denied or delayed by the
\* rate limiter only on account of earlier admitted fetches of the same caller
\* identity, never of fetches other identities caused
C23_PerIdentityAdmission ==
  DeniedNow =>
    \E r \in Clients :
      rateLimitIP(r) = rateLimitIP(Head(requestQueue)) /\ Admitted(r)

\* every denial of the queue follows the admitted fetch of some client, whoever it
\* was: the record the limiter consults is the one of 'server-queue'
DenialFollowsSharedAdmission ==
  DeniedNow =>
    /\ \E r \in Clients : Admitted(r)
    /\ DOMAIN rubinOTRequestLog = {ServerQueue}



\* ------------------------------------------------- properties: rate records
\* the windows of the two logs, by identity
Windows(qlog, dlog) ==
  [x \in DOMAIN qlog \cup DOMAIN dlog |->
     IF x \in DOMAIN qlog THEN qlog[x].requests ELSE dlog[x].requests]
NonDecreasing(w) == \A i, j \in DOMAIN w : i < j => w[i] <= w[j]
\* no timestamp of w is older than the rate window at time t
Pruned(w, t) == \A i \in DOMAIN w : t - w[i] < RATE_LIMIT_WINDOW

WindowWritten(x) ==
  LET W == Windows(rubinOTRequestLog, requestLog)
      V == Windows(rubinOTRequestLog', requestLog')
  IN x \in DOMAIN V /\ (x \notin DOMAIN W \/ W[x] # V[x])

ExtractedNothing(r) ==
  req[r].kind = "deaths" /\ req[r].pc = "closing" /\ req[r].deaths = <<>>
  /\ req[r].tasks = <<>>

QueueEmptyAnswered ==
  \A r \in Clients :
    WasResolved(r)
      => /\ req[r].resp.status = 200 /\ req[r].resp.body = <<>>
         /\ CacheKey(req[r].world) \in DOMAIN cache
         /\ cache[CacheKey(req[r].world)].data = <<>>
\* part_004: three requests were answered the empty list of their own fetches
QueueThreeEmptyAnswers == \A r \in Clients : WasResolved(r)


\* ------------------------------------------- properties: per-IP fetch ceiling
\* the requests of the run that were let through to an upstream fetch
Fetches == {i \in DOMAIN calls : calls[i].by = "middleware" /\ calls[i].allowed}
\* no more than MAX_REQUESTS_PER_MINUTE upstream fetches of the address in the rate
\* window that ends with the latest one
WithinCeiling ==
  Latest \in Fetches =>
    Cardinality({i \in Fetches : calls[Latest].t - calls[i].t < RATE_LIMIT_WINDOW})
      <= MAX_REQUESTS_PER_MINUTE
\* no two requests of the address closer than MIN_REQUEST_INTERVAL are both let through
SpacedFetches ==
  \A i, j \in Fetches : i < j => calls[j].t - calls[i].t >= MIN_REQUEST_INTERVAL

\* C26: per-IP fetch ceiling in server.js: no address causes more than
\* MAX_REQUESTS_PER_MINUTE upstream fetches in a rate window, and of two requests of
\* one address closer than MIN_REQUEST_INTERVAL not both are let through
C26_PerIPCeiling == WithinCeiling /\ SpacedFetches

\* what the middleware does enforce: requests let through are SPAM_INTERVAL apart
SpacedBySpamInterval ==
  \A i, j \in Fetches : i < j => calls[j].t - calls[i].t >= SPAM_INTERVAL
\* a request inside SPAM_INTERVAL was answered 429
CeilingDenialSeen == \E i \in DOMAIN calls : ~calls[i].allowed


\* ------------------------------------ properties: admission effect and frame
\* the window and the last-admitted time of identity x in log, an identity without a
\* record having an empty window and no admission
WindowOf(log, x) == IF x \in DOMAIN log THEN log[x].requests ELSE <<>>
LastAdmittedOf(log, x) == IF x \in DOMAIN log THEN log[x].lastRequest ELSE 0
\* the step made an admission call: the call, and the log it was made on
CallMade == Len(calls') = Len(calls) + 1
\* w without the timestamps that left the rate window by time t, then t
Pushed(w, t) ==
  LET InWindow(x) == t - x < RATE_LIMIT_WINDOW
  IN Append(SelectSeq(w, InWindow), t)

\* the effect of one call of checkRubinOTRateLimit('server-queue')
QueueCallEffect ==
  LET c == calls'[Len(calls')]
  IN (CallMade /\ c.by = "queue") =>
       IF c.allowed
       THEN /\ WindowOf(rubinOTRequestLog', ServerQueue)
                 = Pushed(WindowOf(rubinOTRequestLog, ServerQueue), c.t)
            /\ LastAdmittedOf(rubinOTRequestLog', ServerQueue) = c.t
       ELSE /\ WindowOf(rubinOTRequestLog', ServerQueue)
                 = WindowOf(rubinOTRequestLog, ServerQueue)
            /\ LastAdmittedOf(rubinOTRequestLog', ServerQueue)
                 = LastAdmittedOf(rubinOTRequestLog, ServerQueue)
\* the effect of one run of rateLimitMiddleware: a request let through is stamped, a
\* request answered 429 leaves the record of its address as it was
MiddlewareCallEffect ==
  LET c == calls'[Len(calls')]
  IN (CallMade /\ c.by = "middleware") =>
       \A ip \in IPs :
         /\ WindowOf(requestLog', ip) = WindowOf(requestLog, ip)
         /\ LastAdmittedOf(requestLog', ip)
              = IF c.allowed THEN c.t ELSE LastAdmittedOf(requestLog, ip)

MiddlewareDeniedTwice ==
  /\ Len(calls) = 4
  /\ calls[1].by = "middleware"
  /\ calls[1].allowed /\ ~calls[2].allowed /\ ~calls[3].allowed /\ calls[4].allowed
  /\ calls[4].t = calls[1].t + SPAM_INTERVAL


\* server.js: a request that goes upstream is stamped by the middleware and pushed
\* onto the window of its address by logRateLimitRequest; other addresses keep theirs
LoggedFetchEffect ==
  [][LET c == calls'[Len(calls')]
     IN (CallMade /\ c.by = "log") =>
          \E ip \in RecordIPs :
            /\ WindowOf(requestLog', ip) = Pushed(WindowOf(requestLog, ip), c.t)
            /\ LastAdmittedOf(requestLog', ip) = c.t
            /\ \A other \in RecordIPs \ {ip} :
                 /\ WindowOf(requestLog', other) = WindowOf(requestLog, other)
                 /\ LastAdmittedOf(requestLog', other) = LastAdmittedOf(requestLog, other)]_vars


\* ------------------------------------------------ properties: backoff
\* the waits of a loop are 1 s, 2 s, 3 s in this order, each longer than the one before
Increasing(W) ==
  /\ Len(W) <= MAX_RETRIES
  /\ \A i \in DOMAIN W : W[i].wait = i * 1000
  /\ \A i, j \in DOMAIN W : i < j => W[i].wait < W[j].wait
\* the attempt that follows a wait does not start before the wait is over
WaitedOut(W) == W # <<>> => now >= W[Len(W)].t + W[Len(W)].wait

\* C28: backoff: the wait between consecutive attempts of a retry loop strictly
\* increases with the attempt number (1 s, 2 s, 3 s), the next attempt starts when
\* the wait is over, and the failure of the last attempt is followed by no wait
C28_IncreasingBackoff ==
  /\ Increasing(Waits("server")) /\ Increasing(Waits("queue"))
  /\ req["r1"].pc = "attempt" => WaitedOut(Waits("server"))
  /\ worker.pc = "attempt" => WaitedOut(Waits("queue"))
  /\ req["r1"].pc \in {"backoff", "attempt"}
       => Len(Waits("server")) = req["r1"].retryCount
  /\ worker.pc \in {"backoff", "attempt"} => Len(Waits("queue")) = worker.retryCount
  /\ req["r1"].pc = "failed"
       => req["r1"].retryCount = MAX_RETRIES + 1 /\ Len(Waits("server")) = MAX_RETRIES
  /\ worker.pc = "failed"
       => worker.retryCount = MAX_RETRIES + 1 /\ Len(Waits("queue")) = MAX_RETRIES

\* C28 witness: the loop of server.js failed four attempts, after waits of 1 s, 2 s
\* and 3 s
C28_FourAttemptsThreeWaits ==
  /\ req["r1"].pc = "failed"
  /\ [i \in 1..3 |-> Waits("server")[i].wait] = <<1000, 2000, 3000>>

\* the loop of part_004 failed four attempts, after waits of 1 s, 2 s and 3 s
QueueFourAttemptsThreeWaits ==
  /\ worker.pc = "failed"
  /\ [i \in 1..3 |-> Waits("queue")[i].wait] = <<1000, 2000, 3000>>


\* ------------------------------------------ properties: failed detail fetches
\* details that are nothing but the defaults of a fetch that found nothing
OnlyDefaults(d) ==
  /\ d.vocation = "Unknown" /\ d.residence = "Unknown"
  /\ d.accountStatus \in {"Unknown", "Free Account"}
  /\ d.guild \in {"", "No Guild"}
\* the step creates or overwrites the detail-cache entry of player p
EntryWritten(p) ==
  /\ p \in DOMAIN characterCache'
  /\ p \notin DOMAIN characterCache \/ characterCache'[p] # characterCache[p]

\* C29: failed detail fetches are not cached: no step creates or overwrites a
\* detail-cache entry with details that are only the sentinel defaults, so a detail
\* fetch that failed or found nothing leaves the detail cache as it was
C29_FailedDetailNotCached ==
  [][\A p \in Players : EntryWritten(p) => ~OnlyDefaults(characterCache'[p].data)]_vars

\* a detail fetch of server.js came back with the sentinels and the player has no entry
SentinelFetchedNotCached ==
  \E r \in Reqs : \E i \in DOMAIN req[r].tasks :
    /\ req[r].tasks[i].st = "done"
    /\ Strip(req[r].tasks[i].result) = req[r].tasks[i].death
    /\ OnlyDefaults(req[r].tasks[i].result)
    /\ req[r].tasks[i].death.player \notin DOMAIN characterCache


\* ------------------------------------------ properties: getBrowser() results
\* getBrowser() hands its result to caller p in this step
Returned(p) == req[p].pc # "newPage" /\ req[p].pc \in {"idle", "getBrowser"}
               /\ req'[p].pc = "newPage"

WaiterOfFailedLaunch ==
  \E p, q \in Reqs :
    /\ gb[q] = "wait" /\ ~browserLaunching /\ ~Connected(sharedBrowser)
    /\ req[p].pc = "done" /\ req[p].resp.how = "getBrowser failed"

\* ------------------------------------------------- properties: one loop, no stranded task
\* a processRequestQueue loop is between its first statement and its last
LoopActive == worker.pc # "idle"
\* a call of processRequestQueue went past its first statement: a loop began
LoopStarted ==
  /\ \E r \in Clients : req[r].pc = "idle" /\ req'[r].pc = "queued"
  /\ \/ worker' # worker
     \/ calls' # calls
     \/ isProcessingQueue' # isProcessingQueue
\* the flag says whether a loop runs, and the loop ends only on an empty queue
FlagTellsLoop ==
  /\ isProcessingQueue <=> LoopActive
  /\ ~isProcessingQueue => requestQueue = <<>>

\* C31: single queue worker and no stranded task: a processRequestQueue loop begins
\* only when none is active, so at most one is active at any time, and whenever the
\* flag isProcessingQueue is false with control back in the event loop, the request
\* queue is empty
C31_SingleWorkerNoStrandedTask ==
  /\ []FlagTellsLoop
  /\ [][LoopStarted => (~isProcessingQueue /\ ~LoopActive /\ requestQueue = <<>>)]_vars

\* C31 witness: the loop took the tasks of three requests through at least three
\* admission checks and ended: the flag is down, the queue empty, all three answered
C31_LoopEndedQueueEmpty ==
  /\ ~isProcessingQueue
  /\ requestQueue = <<>>
  /\ \A r \in Clients : req[r].kind = "queue" /\ req[r].pc = "done"
  /\ Len(calls) >= 3

\* ------------------------------------------------- properties: queue order
\* the request whose task queueRubinOTRequest pushes in this step, if any
Enqueued == {r \in Clients : req[r].pc = "idle" /\ req'[r].pc = "queued"}
\* the queue as the loop meets it in this step: the waiting tasks in the order of
\* their pushes, with the task pushed in this step behind them
QueueMet ==
  IF Enqueued = {} THEN requestQueue
  ELSE Append(requestQueue, CHOOSE r \in Enqueued : TRUE)
\* a step leaves the tasks in the order of their pushes and takes none but the oldest
OldestFirst ==
  /\ Cardinality(Enqueued) <= 1
  /\ \/ requestQueue' = QueueMet
     \/ /\ QueueMet # <<>>
        /\ requestQueue' = Tail(QueueMet)
        /\ worker'.task = Head(QueueMet)
  /\ DeniedStep => requestQueue' = QueueMet

\* C32: queue FIFO: queued upstream fetches are executed in the order in which they
\* were enqueued: a push goes behind the waiting tasks, the task taken for execution
\* is the oldest one waiting, and a head task that is denied admission and put back
\* is the head again
C32_QueueFIFO == [][OldestFirst]_vars

\* C32 witness: after a first task was served, the head was denied admission and put
\* back; now the loop executes a task while another, pushed behind it, still waits
C32_OldestRunsAfterDenial ==
  /\ Cardinality(Executing) = 1
  /\ Len(requestQueue) = 1
  /\ worker.task \in Executing
  /\ \E r \in Clients : req[r].kind = "queue" /\ req[r].pc = "done"
  /\ \E n \in DOMAIN calls : ~calls[n].allowed

\* ------------------------------------------------- stale fallback beside a store
\* the entry an earlier request stored for the key more than CACHE_DURATION ago: one
\* death, enriched; the requests that now arrive find it expired
OldEntry == [data |-> <<Enrich(Primary("A", 1), RealVip)>>, timestamp |-> 1]

\* server.js with an expired entry in the list cache
InitFallback ==
  /\ now = CACHE_DURATION + 2
  /\ ticks = 0
  /\ PeersIdle
  /\ cache = Put(<<>>, CacheKey("20"), OldEntry)
  /\ characterCache = <<>>
  /\ requestLog = <<>>
  /\ fastDeathsCache = <<>>
  /\ sharedBrowser = Null
  /\ browserLaunching = TRUE
  /\ browsers = <<>>
  /\ gb = [p \in Procs |-> IF p = Prewarm THEN "launch" ELSE "none"]
  /\ req = [r \in Reqs |-> IdleReq]
  /\ QueueIdle

SpecFallback == InitFallback /\ [][Next]_vars

\* part_004 with an expired entry in the list cache
InitFallbackQ ==
  /\ now = CACHE_DURATION + 2
  /\ ticks = 0
  /\ PeersIdle
  /\ cache = Put(<<>>, CacheKey("20"), OldEntry)
  /\ characterCache = <<>>
  /\ requestLog = <<>>
  /\ fastDeathsCache = <<>>
  /\ sharedBrowser = Null
  /\ browserLaunching = FALSE
  /\ browsers = <<>>
  /\ gb = [p \in Procs |-> "none"]
  /\ req = [r \in Reqs |-> IdleReq]
  /\ QueueIdle

SpecFallbackQ == InitFallbackQ /\ [][NextQ]_vars

\* the handler of r sends its stale answer in this step
FallsBack(r) == req[r].pc # "done" /\ req'[r].pc = "done" /\ req'[r].resp.how = "stale"
\* what the list cache holds for the key of r, filtered as the request asks
NewestCached(r) == VipFilter(req[r].vip, cache[CacheKey(req[r].world)].data)

\* C33: fallback returns the newest cached value: a request that falls back to the
\* cache after its upstream fetch failed answers with the value the list cache holds
\* for its key at the moment of the response, also when another request stored a
\* newer value for the key while this one was fetching
C33_FallbackReturnsNewest ==
  [][\A r \in Reqs : FallsBack(r) => /\ CacheKey(req[r].world) \in DOMAIN cache
                                      /\ req'[r].resp.body = NewestCached(r)]_vars

\* a stale answer repeats the entry the handler read when the request arrived
FallbackReturnsCaptured ==
  [][\A r \in Reqs :
        FallsBack(r) => /\ req[r].cached # <<>>
                        /\ req'[r].resp.body = VipFilter(req[r].vip, req[r].cached[1].data)]_vars

\* one request was answered with the rows of its fetch, which it stored, and the
\* other with the stale rows of the entry that store replaced
StaleBesideNewer ==
  \E r, s \in Reqs :
    /\ req[r].pc = "done" /\ req[r].resp.how = "stale"
    /\ req[s].pc = "done" /\ req[s].resp.how = "fresh"
    /\ req[r].resp.body # VipFilter(req[r].vip, cache[CacheKey(req[r].world)].data)

\* ------------------------------------------------- overlapping fetches for one key
\* one page load or one cache.set of request r at time t
Mark(by, r, t) == [by |-> by, r |-> r, t |-> t]

\* server.js: two GET /api/deaths requests for the same key missed the cache in the
\* same instant; each has its page and has called page.goto
InitOverlap ==
  /\ now = 1
  /\ ticks = 0
  /\ PeersIdle
  /\ cache = <<>>
  /\ characterCache = <<>>
  /\ requestLog = [ip \in {"ip1"} |-> [requests |-> <<now, now>>, lastRequest |-> now]]
  /\ fastDeathsCache = <<>>
  /\ sharedBrowser = 1
  /\ browserLaunching = FALSE
  /\ browsers = <<[connected |-> TRUE, pages |-> 2]>>
  /\ gb = [p \in Procs |-> "none"]
  /\ req = [r \in Reqs |->
              [IdleReq EXCEPT !.pc = "goto", !.rateTouched = TRUE, !.browser = 1,
                              !.page = "open",
                              !.budgets = <<[goto |-> gotoTimeout(0),
                                             selector |-> selectorTimeout(0)]>>]]
  /\ QueueIdle

\* page.goto resolved: the rows the page shows were read from upstream now
GotoRead(r) == Loaded(r) /\ calls' = Append(calls, Mark("read", r, now))
\* cache.set(cacheKey, {data, timestamp: Date.now()}) and the answer
StoreStamped(r) == Stored(r) /\ calls' = Append(calls, Mark("store", r, now))

\* every puppeteer call of the two requests succeeds; the clock may advance between
\* any two of them
NextOverlap ==
  \/ \E d \in TickSteps : Tick(d)
  \/ \E r \in Reqs :
        \/ GotoRead(r) \/ TableFound(r) \/ Merge(r) \/ StoreStamped(r)
        \/ \E list \in Lists(MaxRows) : Parse(r, list)
        \/ \E i \in 1..PRIORITY_FETCH :
              \/ DetailNewPageOk(r, i)
              \/ \E c \in DetailOutcomes : DetailDone(r, i, c)

SpecOverlap == InitOverlap /\ [][NextOverlap]_vars

\* the cache.set calls so far
Stores == {n \in DOMAIN calls : calls[n].by = "store"}
\* the page load whose rows the store n wrote
ReadOf(n) == CHOOSE i \in DOMAIN calls : calls[i].by = "read" /\ calls[i].r = calls[n].r
\* a store never replaces rows read later by rows read earlier
NewerNeverReplaced == \A i, j \in Stores : i < j => ReadOf(i) < ReadOf(j)
\* the timestamp of an entry is not later than the time its rows were read
StampedWithReadTime == \A n \in Stores : calls[n].t <= calls[ReadOf(n)].t

\* C34: cache writes are monotone in data age: a list-cache write never replaces a
\* value read from upstream later with a value read from upstream earlier, and the
\* timestamp of an entry is not later than the time its data was read
C34_WritesMonotoneInDataAge == NewerNeverReplaced /\ StampedWithReadTime

\* the entry is stamped with the time of the cache.set that wrote it
StampedWithStoreTime ==
  \A n \in Stores :
    (\A m \in Stores : m <= n)
      => cache[CacheKey("20")].timestamp = calls[n].t

\* the rows read first were stored last, a clock advance after the other store: the
\* cache holds the older rows under the newer timestamp
OlderRowsCachedAsFresh ==
  \E i, j \in Stores :
    /\ i < j
    /\ ReadOf(j) < ReadOf(i)
    /\ calls[ReadOf(j)].t < calls[j].t
    /\ cache[CacheKey("20")].timestamp = calls[j].t
    /\ cache[CacheKey("20")].data = req[calls[j].r].resp.body

\* ------------------------------------------------- the React client (src/src/App.jsx)
\* the worlds the user switches between, and the player who dies in each
ClientWorlds == {"20", "11"}
PlayerOf(world) == IF world = "20" THEN "A" ELSE "B"
WorldOf(d) == IF d.player = "A" THEN "20" ELSE "11"
\* the arrays /api/deaths?world=w can answer with, newest death first
Responses(world) ==
  {<<>>, <<Primary(PlayerOf(world), 1)>>,
   <<Primary(PlayerOf(world), 2), Primary(PlayerOf(world), 1)>>}
\* updatedDeaths.slice(0, 5)
DISPLAY_LIMIT == 5

\* const id = d.player + d.time
DeathId(d) == <<d.player, d.time>>

\* a fetchDeaths that does not look at fetchingRef
fetchDeaths_Unguarded(c) ==
  [c EXCEPT !.fetchingRef = TRUE,
            !.flights = Append(@, [world |-> c.currentWorld, pc |-> "fetch"])]
\* fetchDeaths up to its first await: return when a request is in flight, else raise
\* the guard and call fetch with the world of the ref
fetchDeaths(c) ==
  IF c.fetchingRef THEN c
  ELSE [c EXCEPT !.fetchingRef = TRUE,
                 !.flights = Append(@, [world |-> c.currentWorld, pc |-> "fetch"])]

\* the flights of q without the i-th
Without(q, i) == SubSeq(q, 1, i - 1) \o SubSeq(q, i + 1, Len(q))
\* finally { fetchingRef.current = false }: the call of flight i is over
Settled(c, i) == [c EXCEPT !.fetchingRef = FALSE, !.flights = Without(@, i)]

\* the component mounts: the effects run, the world effect calls fetchDeaths and
\* starts the interval
Mount ==
  /\ client = IdleClient
  /\ client' = fetchDeaths(client)
  /\ UNCHANGED <<serverState, alerter>>

\* setInterval(() => fetchDeaths(), 2000) fires
IntervalFires ==
  /\ client # IdleClient
  /\ client' = fetchDeaths(client)
  /\ UNCHANGED <<serverState, alerter>>

\* the filters changed: the effect fetches when deaths are shown
FiltersChange ==
  /\ client # IdleClient
  /\ Len(client.deaths) > 0
  /\ client' = fetchDeaths(client)
  /\ UNCHANGED <<serverState, alerter>>

\* the user picks another world: the ref effect sets currentWorld, then the world
\* effect clears the interval, the list and the known ids, calls fetchDeaths and
\* starts a new interval
WorldChanges(w) ==
  /\ client # IdleClient
  /\ w # client.world
  /\ client' = fetchDeaths([client EXCEPT !.world = w, !.currentWorld = w,
                                          !.deaths = <<>>, !.latestIds = {}])
  /\ UNCHANGED <<serverState, alerter>>

\* await fetch(url) resolved with res.ok
FetchOk(i) ==
  /\ i \in DOMAIN client.flights
  /\ client.flights[i].pc = "fetch"
  /\ client' = [client EXCEPT !.flights[i].pc = "json"]
  /\ UNCHANGED <<serverState, alerter>>

\* fetch rejected, or resolved with an HTTP error status and the handler threw: catch
FetchFails(i) ==
  /\ i \in DOMAIN client.flights
  /\ client.flights[i].pc = "fetch"
  /\ client' = Settled(client, i)
  /\ UNCHANGED <<serverState, alerter>>

\* await res.json() rejected (catch), or resolved with something that is no array
\* (return inside the try)
JsonUnusable(i) ==
  /\ i \in DOMAIN client.flights
  /\ client.flights[i].pc = "json"
  /\ client' = Settled(client, i)
  /\ UNCHANGED <<serverState, alerter>>

\* await res.json() resolved with an array: the ids are recorded, the list replaced
JsonArray(i, data) ==
  /\ i \in DOMAIN client.flights
  /\ client.flights[i].pc = "json"
  /\ client' = [Settled(client, i) EXCEPT
                  !.latestIds = @ \cup {DeathId(data[n]) : n \in DOMAIN data},
                  !.deaths = SubSeq(data, 1, Min(DISPLAY_LIMIT, Len(data)))]
  /\ UNCHANGED <<serverState, alerter>>

\* a request in flight settles
Settles ==
  \E i \in DOMAIN client.flights :
    \/ FetchOk(i) \/ FetchFails(i) \/ JsonUnusable(i)
    \/ \E data \in Responses(client.flights[i].world) : JsonArray(i, data)

\* the server untouched, the client not mounted, the alerter not started
InitPeers ==
  /\ now = 1
  /\ ticks = 0
  /\ PeersIdle
  /\ cache = <<>>
  /\ characterCache = <<>>
  /\ requestLog = <<>>
  /\ fastDeathsCache = <<>>
  /\ sharedBrowser = Null
  /\ browserLaunching = FALSE
  /\ browsers = <<>>
  /\ gb = [p \in Procs |-> "none"]
  /\ req = [r \in Reqs |-> IdleReq]
  /\ QueueIdle

NextClient ==
  \/ Mount \/ IntervalFires \/ FiltersChange
  \/ \E w \in ClientWorlds : WorldChanges(w)
  \/ Settles

SpecClient == InitPeers /\ [][NextClient]_vars

\* the page is opened, every request the client sends is answered or fails, and the
\* interval keeps firing
LiveClient == SpecClient /\ WF_vars(Mount) /\ WF_vars(Settles) /\ WF_vars(IntervalFires)

\* ------------------------------------------------- properties: client poll guard
\* fetchingRef is up exactly while a request is in flight
GuardTellsFlight == client.fetchingRef <=> client.flights # <<>>
\* a call of fetchDeaths ended in this step
FlightEnded == Len(client'.flights) < Len(client.flights)

\* C35: client poll guard: at most one fetchDeaths request is in flight at any time,
\* the fetchingRef guard is released after every fetch outcome (success, HTTP error,
\* non-array response, exception), and a raised guard always comes down again, so
\* polling never stops for good
C35_ClientPollGuard ==
  /\ [](Len(client.flights) <= 1 /\ GuardTellsFlight)
  /\ [][FlightEnded => ~client'.fetchingRef]_vars
  /\ client.fetchingRef ~> ~client.fetchingRef
  /\ []<>(client.flights # <<>>)

\* C35 witness: a request is in flight while the two deaths of an earlier answer are
\* shown: the call that brought them released the guard, and polling went on
C35_PollingAfterOutcomes ==
  /\ client.world = "20"
  /\ client.flights = <<[world |-> "20", pc |-> "json"]>>
  /\ client.fetchingRef
  /\ Len(client.deaths) = 2
  /\ WorldOf(client.deaths[1]) = "20"

\* ------------------------------------------------- properties: client world switch
\* every death shown and every known id belongs to the world now applied
OnlyAppliedWorld ==
  /\ \A n \in DOMAIN client.deaths : WorldOf(client.deaths[n]) = client.world
  /\ \A id \in client.latestIds : WorldOf([player |-> id[1]]) = client.world
\* the world effect ran in this step
Switched == client'.world # client.world
\* a request for world w is in flight
InFlightFor(c, w) == \E i \in DOMAIN c.flights : c.flights[i].world = w

\* C36: client world switch: after the applied world changes, the deaths list and
\* the set of known ids hold only records of responses to requests issued for the
\* world now applied, and the fetch the world effect calls for the new world is sent
C36_WorldSwitchClean ==
  /\ []OnlyAppliedWorld
  /\ [][Switched => InFlightFor(client', client'.world)]_vars

\* the answer to a request issued for the world left behind fills the list of the
\* world now applied
OldWorldRepopulates ==
  /\ client.world = "11"
  /\ Len(client.deaths) > 0
  /\ \A n \in DOMAIN client.deaths : WorldOf(client.deaths[n]) = "20"
\* the world changed while a request was in flight: none is in flight for the new one
FirstFetchSkipped ==
  /\ client.world = "11"
  /\ client.flights # <<>>
  /\ ~InFlightFor(client, "11")
\* the list shows what the last usable answer brought, whatever world it was for,
\* and a switch with no request in flight does send the first fetch
ListIsLastAnswer ==
  [][/\ (Switched /\ ~client.fetchingRef) => InFlightFor(client', client'.world)
     /\ (Switched /\ client.fetchingRef) => client'.flights = client.flights
     /\ \A n \in DOMAIN client'.deaths :
          \/ client'.deaths = client.deaths
          \/ InFlightFor(client, WorldOf(client'.deaths[n]))]_vars

\* ------------------------------------------------- the Discord alerter
\* (src/netlify/functions/deaths.js)
\* what parseDeathsTable can hand back, newest death first
AlertPages == {<<>>, <<Primary("A", 1)>>, <<Primary("B", 2), Primary("A", 1)>>}
\* deaths.slice(0, 5)
LATEST_DEATHS == 5
\* const deathId = `${death.player}_${death.time}`
deathId(death) == <<death.player, death.time>>
\* one webhook POST: the death it was for and whether Discord took it
Post(id, ok) == [id |-> id, ok |-> ok]

\* the for loop from position from on: the next death whose id notifiedDeaths lacks,
\* for which sendDiscordAlert is called and awaited; 0 when the loop ends
RECURSIVE Seek(_, _, _)
Seek(latestDeaths, from, notified) ==
  IF from > Len(latestDeaths) THEN 0
  ELSE IF deathId(latestDeaths[from]) \notin notified THEN from
  ELSE Seek(latestDeaths, from + 1, notified)
\* the run goes on to its next await, or ends
Proceed(run, from, notified) ==
  LET j == Seek(run.latestDeaths, from, notified)
  IN IF j = 0 THEN IdleRun ELSE [run EXCEPT !.pc = "send", !.i = j]

\* notifiedDeaths.add(deathId) after await sendDiscordAlert(death), which catches
\* its own errors
Marked(notified, id, ok) == notified \cup {id}

\* checkDeaths is called, at start-up or by setInterval: it awaits the page
RunStarts(k) ==
  /\ alerter.runs[k].pc = "idle"
  /\ alerter' = [alerter EXCEPT !.runs[k].pc = "fetch"]
  /\ UNCHANGED <<serverState, client>>

\* fetch or response.text() rejected: checkDeaths rejects, nobody awaits it
PageFails(k) ==
  /\ alerter.runs[k].pc = "fetch"
  /\ alerter' = [alerter EXCEPT !.runs[k] = IdleRun]
  /\ UNCHANGED <<serverState, client>>

\* the page came and was parsed: the loop runs up to its first await
PageParsed(k, page) ==
  /\ alerter.runs[k].pc = "fetch"
  /\ LET latestDeaths == SubSeq(page, 1, Min(LATEST_DEATHS, Len(page)))
     IN alerter' = [alerter EXCEPT !.runs[k] =
          Proceed([@ EXCEPT !.latestDeaths = latestDeaths], 1, alerter.notifiedDeaths)]
  /\ UNCHANGED <<serverState, client>>

\* sendDiscordAlert returned: the POST was taken (ok) or it failed and the error was
\* logged; the id is added and the loop goes on
SendReturns(k, ok) ==
  /\ alerter.runs[k].pc = "send"
  /\ LET run == alerter.runs[k]
         id == deathId(run.latestDeaths[run.i])
         notified == Marked(alerter.notifiedDeaths, id, ok)
     IN alerter' = [alerter EXCEPT !.posts = Append(@, Post(id, ok)),
                                   !.notifiedDeaths = notified,
                                   !.runs[k] = Proceed(run, run.i + 1, notified)]
  /\ UNCHANGED <<serverState, client>>

NextAlerter ==
  \E k \in DOMAIN alerter.runs :
    \/ RunStarts(k) \/ PageFails(k)
    \/ \E page \in AlertPages : PageParsed(k, page)
    \/ \E ok \in BOOLEAN : SendReturns(k, ok)

SpecAlerter == InitPeers /\ [][NextAlerter]_vars

\* ------------------------------------------------- properties: alert de-duplication
\* the alerts Discord took for the death id
Delivered(id) == {n \in DOMAIN alerter.posts : alerter.posts[n] = Post(id, TRUE)}
\* the POSTs made for the death id
Posted(id) == {n \in DOMAIN alerter.posts : alerter.posts[n].id = id}
AlertIds == {deathId(Primary(p, t)) : p \in Players, t \in 1..2}
AtMostOneAlert == \A id \in AlertIds : Cardinality(Delivered(id)) <= 1
NotifiedOnlyIfSent == \A id \in alerter.notifiedDeaths : Delivered(id) # {}

\* C37: alert de-duplication: the alerter sends at most one alert per death identity
\* (player name plus time string) over any sequence of polling runs, runs of
\* checkDeaths that overlap included, and marks a death as notified only when its
\* alert was sent
C37_AlertOncePerDeath == AtMostOneAlert /\ NotifiedOnlyIfSent

\* two runs that overlapped both had their alert for the same death taken
AlertedTwice == \E id \in AlertIds : Cardinality(Delivered(id)) = 2
\* a death is marked notified and no alert for it was ever taken
MarkedWithoutAlert ==
  \E id \in alerter.notifiedDeaths : Delivered(id) = {} /\ Posted(id) # {}
\* a marked death had its POST made, and no run posts one death twice: a death is
\* posted at most once per run that was under way when it was first posted
MarkedMeansPosted ==
  /\ \A id \in alerter.notifiedDeaths : Posted(id) # {}
  /\ \A id \in AlertIds : Cardinality(Posted(id)) <= Len(alerter.runs)

\* ------------------------------------------------- request termination
\* server.js: the puppeteer promise or the timer the handler of r awaits settles
HandlerStep(r) ==
  \/ NewPageOk(r) \/ NewPageFail(r) \/ GotoOk(r) \/ GotoFail(r)
  \/ TableFound(r) \/ ContainerOnly(r) \/ NoContainer(r) \/ BackoffDone(r)
  \/ EvaluateFail(r) \/ Merge(r) \/ PageClosed(r) \/ PageCloseFail(r)
  \/ \E list \in Lists(MaxRows) : Parse(r, list)
  \/ \E i \in 1..PRIORITY_FETCH :
        \/ DetailNewPageOk(r, i) \/ DetailNewPageFail(r, i)
        \/ \E c \in DetailOutcomes : DetailDone(r, i, c)
\* puppeteer.launch settles, the 100 ms sleep of a waiting getBrowser call ends
BrowserStep == \E p \in Procs : GetBrowserRetry(p) \/ LaunchOk(p) \/ LaunchFail(p)

\* one GET /api/deaths request arrives at server.js while the pre-warm launch is in
\* flight, whatever earlier requests left behind: no entry for its key, an expired
\* one or a fresh one, and no rate record of its address or one of this instant
InitDeaths ==
  /\ now = CACHE_DURATION + 2
  /\ ticks = 0
  /\ PeersIdle
  /\ \E entry \in {"absent", "expired", "fresh"} :
        cache = IF entry = "absent" THEN <<>>
                ELSE Put(<<>>, CacheKey("20"),
                         [OldEntry EXCEPT !.timestamp = IF entry = "fresh" THEN now ELSE 1])
  /\ characterCache = <<>>
  /\ \E recent \in BOOLEAN :
        requestLog = IF recent
                     THEN [ip \in IPs |-> [requests |-> <<now>>, lastRequest |-> now]]
                     ELSE <<>>
  /\ fastDeathsCache = <<>>
  /\ sharedBrowser = Null
  /\ browserLaunching = TRUE
  /\ browsers = <<>>
  /\ gb = [p \in Procs |-> IF p = Prewarm THEN "launch" ELSE "none"]
  /\ req = [r \in Reqs |-> IdleReq]
  /\ QueueIdle

NextDeaths ==
  \/ \E d \in TickSteps : Tick(d)
  \/ \E b \in DOMAIN browsers : BrowserDies(b)
  \/ \E ip \in IPs, w \in Worlds, vip \in BOOLEAN :
        ArriveTooFast("r1", ip, w, vip) \/ ArriveHit("r1", ip, w, vip)
          \/ ArriveMiss("r1", ip, w, vip)
  \/ BrowserStep
  \/ HandlerStep("r1")

SpecDeaths == InitDeaths /\ [][NextDeaths]_vars

\* server.js under the claim's assumption: every browser operation returns or times
\* out and every timer fires
LiveDeaths == SpecDeaths /\ WF_vars(BrowserStep \/ HandlerStep("r1"))
\* the same for two requests side by side
LiveServer == Spec /\ WF_vars(BrowserStep \/ \E r \in Reqs : HandlerStep(r))

\* part_004: a timer of the queue loop fires, or a puppeteer promise of the fetch
\* or of a handler's detail fetch settles
QueueStep ==
  \/ RateWaitDone \/ QueueDelayDone \/ WorkerLaunchOk \/ WorkerLaunchFail
  \/ WorkerNewPageOk \/ WorkerNewPageFail \/ WorkerGotoOk \/ WorkerGotoFail
  \/ WorkerTableFound \/ WorkerNoContainer \/ WorkerBackoffDone
  \/ WorkerEvaluateFail \/ WorkerPageClosed \/ WorkerPageCloseFail
  \/ \E list \in Lists(MaxRows) : WorkerParse(list)
  \/ \E r \in Reqs, i \in 1..MaxRows :
        \/ CharNewPageOk(r, i) \/ CharNewPageFail(r, i) \/ CharLoadFail(r, i)
        \/ \E c \in CharacterData : CharLoaded(r, i, c)
\* part_004 under the same assumption
LiveQ == SpecQ /\ WF_vars(QueueStep)

\* the request r has reached the server and has not been answered
Open(r) == req[r].pc \notin {"idle", "done"}
\* the response of r has been sent
Answered(r) == req[r].pc = "done" /\ req[r].resp # NoResp
\* a response, once sent, is the only one: the handler is over and no later step
\* (a detail fetch still running after Promise.all rejected) sends another
AnsweredForGood == \A r \in Reqs : Answered(r) => (Answered(r)' /\ req'[r].resp = req[r].resp)
\* a response is sent by the step that ends the handler, not before
NoEarlyResponse == \A r \in Reqs : req[r].pc # "done" => req[r].resp = NoResp

\* C38: request termination: provided every browser operation returns or times out,
\* every /api/deaths request that reached the server is answered (fresh result,
\* stale result or error), and it is answered once: no step changes the response
\* of a request that was answered, and no request carries one before its handler ended
C38_AnsweredExactlyOnce ==
  /\ \A r \in Reqs : Open(r) ~> Answered(r)
  /\ [][AnsweredForGood]_vars
  /\ []NoEarlyResponse

\* C38 witness: four attempts failed and the request was answered with the expired
\* entry it found when it arrived
C38_AnsweredStaleAfterRetries ==
  /\ Answered("r1")
  /\ req["r1"].resp.how = "stale"
  /\ req["r1"].resp.status = 200
  /\ req["r1"].hadCached

====
